---- MODULE Spec2Model ----
(***************************************************************************)
(* GoalGen: spec validation, generation manifest, regeneration policy and  *)
(* the command-line shell that ties them together.                         *)
(*                                                                         *)
(* Part 1  JSON documents and the Python operations the code applies       *)
(* Part 2  SpecValidator (spec_validator.py)                               *)
(* Part 3  GenerationManifest and should_regenerate_file (manifest.py)     *)
(* Part 4  generators and main() (generators/*.py, goalgen.py)             *)
(* Part 5  specifications                                                  *)
(* Part 6  properties                                                      *)
(***************************************************************************)
EXTENDS Integers, Sequences, FiniteSets, TLC

(***************************************************************************)
(* Part 1: JSON documents.                                                 *)
(* A JSON value is a tagged record.  A mapping keeps its keys in insertion *)
(* order (Python dicts iterate in insertion order).  A float is kept in    *)
(* tenths.                                                                 *)
(***************************************************************************)
JS(s) == [t |-> "str", s |-> s]
JI(n) == [t |-> "int", n |-> n]
JF(tenths) == [t |-> "float", n |-> tenths]
JB(b) == [t |-> "bool", b |-> b]
JNull == [t |-> "NoneType"]
JD(keys, val) == [t |-> "dict", keys |-> keys, val |-> val]
JL(items) == [t |-> "list", items |-> items]
EmptyDict == JD(<<>>, <<>>)

SeqRange(q) == {q[i] : i \in 1..Len(q)}

\* type(x).__name__
TypeName(x) == x.t

IsDict(x) == x.t = "dict"
IsList(x) == x.t = "list"
IsStr(x) == x.t = "str"
\* isinstance(x, int): bool is a subclass of int
IsInt(x) == x.t \in {"int", "bool"}
\* isinstance(x, (int, float))
IsNumber(x) == x.t \in {"int", "bool", "float"}
IsStrEq(x, s) == x.t = "str" /\ x.s = s

\* The characters of the string values that occur in documents.  A string
\* that is not listed is a key literal of the code; none of them occurs inside
\* a listed value, so it is kept as a single symbol.
LongId == [i \in 1..51 |-> "a"]
CharTable ==
  [ trip |-> <<"t","r","i","p">>,
    Trip |-> <<"T","r","i","p">>,
    my_goal |-> <<"m","y","-","g","o","a","l">>,
    tripnl |-> <<"t","r","i","p","\n">>,
    longid |-> LongId,
    empty |-> <<>>,
    v100 |-> <<"1",".","0",".","0">>,
    v10 |-> <<"1",".","0">>,
    v100a |-> <<"1",".","0",".","0","-","a",".","1">>,
    v100bad |-> <<"1",".","0",".","0","-">>,
    sup |-> <<"s","u","p">>,
    worker |-> <<"w","o","r","k","e","r">>,
    Worker |-> <<"W","o","r","k","e","r">>,
    ghost |-> <<"g","h","o","s","t">>,
    t1 |-> <<"t","1">>,
    t2 |-> <<"t","2">>,
    gpt4 |-> <<"g","p","t","-","4">>,
    gpt4turbo |-> <<"g","p","t","-","4","-","t","u","r","b","o">>,
    gpt4o |-> <<"g","p","t","-","4","o">>,
    gpt4omini |-> <<"g","p","t","-","4","o","-","m","i","n","i">>,
    gpt35turbo |-> <<"g","p","t","-","3",".","5","-","t","u","r","b","o">>,
    llama |-> <<"l","l","a","m","a">>,
    get |-> <<"g","e","t">>,
    GET |-> <<"G","E","T">>,
    POST |-> <<"P","O","S","T">>,
    PUT |-> <<"P","U","T">>,
    DELETE |-> <<"D","E","L","E","T","E">>,
    PATCH |-> <<"P","A","T","C","H">>,
    HEAD |-> <<"H","E","A","D">>,
    OPTIONS |-> <<"O","P","T","I","O","N","S">>,
    FETCH |-> <<"F","E","T","C","H">> ]
Chars(s) == IF s \in DOMAIN CharTable THEN CharTable[s] ELSE <<s>>

Lower == {"a","b","c","d","e","f","g","h","i","j","k","l","m",
          "n","o","p","q","r","s","t","u","v","w","x","y","z"}
Upper == {"A","B","C","D","E","F","G","H","I","J","K","L","M",
          "N","O","P","Q","R","S","T","U","V","W","X","Y","Z"}
Digits == {"0","1","2","3","4","5","6","7","8","9"}

LowerSeq == <<"a","b","c","d","e","f","g","h","i","j","k","l","m",
              "n","o","p","q","r","s","t","u","v","w","x","y","z">>
UpperSeq == <<"A","B","C","D","E","F","G","H","I","J","K","L","M",
              "N","O","P","Q","R","S","T","U","V","W","X","Y","Z">>
\* str.upper(), on the characters
UpperChars(cs) ==
  [i \in 1..Len(cs) |->
     IF cs[i] \in Lower
     THEN UpperSeq[CHOOSE j \in 1..26 : LowerSeq[j] = cs[i]]
     ELSE cs[i]]

\* a in b for two strings: substring search
IsSubstring(a, b) ==
  \E i \in 0..(Len(b) - Len(a)) : SubSeq(b, i + 1, i + Len(a)) = a

\* `k in x` is defined for mappings, sequences and strings only
CanContain(x) == x.t \in {"dict", "list", "str"}
In(k, x) ==
  CASE x.t = "dict" -> k \in SeqRange(x.keys)
    [] x.t = "list" -> \E i \in 1..Len(x.items) : IsStrEq(x.items[i], k)
    [] x.t = "str" -> IsSubstring(Chars(k), Chars(x.s))
    [] OTHER -> FALSE

\* x[k] with a string key: only a mapping that has the key returns a value
CanIndex(x, k) == x.t = "dict" /\ k \in SeqRange(x.keys)
Get(x, k) == x.val[k]
\* x.get(k): only mappings have the method
HasGetMethod(x) == x.t = "dict"
\* len(x)
HasLen(x) == x.t \in {"dict", "list", "str"}
PyLen(x) ==
  CASE x.t = "dict" -> Len(x.keys)
    [] x.t = "list" -> Len(x.items)
    [] x.t = "str" -> Len(Chars(x.s))
    [] OTHER -> 0
\* hashable values can be looked up in a set or list of strings
Hashable(x) == x.t \notin {"dict", "list"}
\* truthiness
Truthy(x) ==
  CASE x.t = "dict" -> Len(x.keys) > 0
    [] x.t = "list" -> Len(x.items) > 0
    [] x.t = "str" -> Len(Chars(x.s)) > 0
    [] x.t = "bool" -> x.b
    [] x.t \in {"int", "float"} -> x.n # 0
    [] OTHER -> FALSE

\* re `$` matches at the end and also just before a final newline
StripFinalNewline(cs) ==
  IF Len(cs) > 0 /\ cs[Len(cs)] = "\n" THEN SubSeq(cs, 1, Len(cs) - 1) ELSE cs

\* re.match(r'^[a-z][a-z0-9_]*$', s)
MatchIdentifier(s) ==
  LET cs == StripFinalNewline(Chars(s)) IN
    /\ Len(cs) >= 1
    /\ cs[1] \in Lower
    /\ \A i \in 2..Len(cs) : cs[i] \in Lower \cup Digits \cup {"_"}

\* index of the first position at or after i that does not hold a digit
RECURSIVE SkipDigits(_, _)
SkipDigits(cs, i) ==
  IF i <= Len(cs) /\ cs[i] \in Digits THEN SkipDigits(cs, i + 1) ELSE i

\* re.match(r'^\d+\.\d+\.\d+(-[a-zA-Z0-9.]+)?$', s)
MatchVersion(s) ==
  LET cs == StripFinalNewline(Chars(s))
      a == SkipDigits(cs, 1)
      b == SkipDigits(cs, a + 1)
      c == SkipDigits(cs, b + 1)
  IN /\ a > 1
     /\ a <= Len(cs) /\ cs[a] = "."
     /\ b > a + 1
     /\ b <= Len(cs) /\ cs[b] = "."
     /\ c > b + 1
     /\ \/ c = Len(cs) + 1
        \/ /\ c <= Len(cs) /\ cs[c] = "-"
           /\ c < Len(cs)
           /\ \A i \in (c + 1)..Len(cs) :
                 cs[i] \in Lower \cup Upper \cup Digits \cup {"."}

(***************************************************************************)
(* Part 2: SpecValidator.                                                  *)
(* A diagnostic keeps the severity, the path (its dot-separated segments), *)
(* the message text with its interpolated values in `subject`, and the     *)
(* suggestion ("None" when absent).  A check yields the diagnostics it     *)
(* appended and whether it raised an exception.                            *)
(***************************************************************************)
ERROR == "error"
WARNING == "warning"
INFO == "info"

ValidationIssue(severity, path, message, subject, suggestion) ==
  [severity |-> severity, path |-> path, message |-> message,
   subject |-> subject, suggestion |-> suggestion]

Ok(issues) == [issues |-> issues, raised |-> FALSE]
Raised == [issues |-> <<>>, raised |-> TRUE]
\* run b after a, unless a raised
Then(a, b) ==
  IF a.raised THEN a
  ELSE [issues |-> a.issues \o b.issues, raised |-> b.raised]

\* what a value looks like inside an f-string; only strings are spelled out
Shown(x) == IF x.t = "str" THEN x.s ELSE x.t

required_fields == <<"id", "title", "version", "agents">>

RECURSIVE RequiredFieldsFrom(_, _)
RequiredFieldsFrom(spec, i) ==
  IF i > Len(required_fields) THEN <<>>
  ELSE (IF ~In(required_fields[i], spec)
        THEN <<ValidationIssue(ERROR, <<"root", required_fields[i]>>,
                 "Required field is missing", <<required_fields[i]>>,
                 "Add field to the root of your spec")>>
        ELSE <<>>) \o RequiredFieldsFrom(spec, i + 1)

_validate_required_fields(spec) == Ok(RequiredFieldsFrom(spec, 1))

_validate_id(spec) ==
  IF ~In("id", spec) THEN Ok(<<>>)
  ELSE LET spec_id == Get(spec, "id") IN
    IF ~IsStr(spec_id)
    THEN Ok(<<ValidationIssue(ERROR, <<"root", "id">>, "ID must be a string",
                <<TypeName(spec_id)>>, "None")>>)
    ELSE IF ~Truthy(spec_id)
    THEN Ok(<<ValidationIssue(ERROR, <<"root", "id">>, "ID cannot be empty",
                <<>>, "None")>>)
    ELSE Ok(
      (IF ~MatchIdentifier(spec_id.s)
       THEN <<ValidationIssue(ERROR, <<"root", "id">>,
                "ID must start with lowercase letter", <<>>,
                "Example: corrected id")>>
       ELSE <<>>)
      \o
      (IF PyLen(spec_id) > 50
       THEN <<ValidationIssue(WARNING, <<"root", "id">>, "ID is very long",
                <<>>, "None")>>
       ELSE <<>>))

_validate_version(spec) ==
  IF ~In("version", spec) THEN Ok(<<>>)
  ELSE LET version == Get(spec, "version") IN
    IF ~IsStr(version)
    THEN Ok(<<ValidationIssue(ERROR, <<"root", "version">>,
                "Version must be a string", <<TypeName(version)>>, "None")>>)
    ELSE IF ~MatchVersion(version.s)
    THEN Ok(<<ValidationIssue(ERROR, <<"root", "version">>,
                "Version is not valid semantic version", <<version.s>>,
                "Example: '1.0.0' or '1.0.0-alpha'")>>)
    ELSE Ok(<<>>)

valid_kinds == {"supervisor", "llm_agent", "evaluator"}
valid_models == <<"gpt4", "gpt4turbo", "gpt4o", "gpt4omini", "gpt35turbo">>

_validate_supervisor_agent(agent_name, agent_config) ==
  IF ~In("policy", agent_config)
  THEN Ok(<<ValidationIssue(INFO, <<"agents", agent_name, "policy">>,
              "Supervisor should specify routing policy", <<>>,
              "Recommended: 'policy': 'simple_router'")>>)
  ELSE Ok(<<>>)

_validate_llm_agent(agent_name, agent_config) ==
  Ok((IF ~In("llm_config", agent_config)
      THEN <<ValidationIssue(WARNING, <<"agents", agent_name, "llm_config">>,
               "LLM agent should specify llm_config with model", <<>>,
               "Example: 'llm_config': {'model': 'gpt-4'}")>>
      ELSE <<>>)
     \o
     (IF In("tools", agent_config) /\ ~IsList(Get(agent_config, "tools"))
      THEN <<ValidationIssue(ERROR, <<"agents", agent_name, "tools">>,
               "Tools must be a list",
               <<TypeName(Get(agent_config, "tools"))>>, "None")>>
      ELSE <<>>))

_validate_evaluator_agent(agent_name, agent_config) ==
  IF ~In("checks", agent_config)
  THEN Ok(<<ValidationIssue(WARNING, <<"agents", agent_name, "checks">>,
              "Evaluator should specify checks to perform", <<>>, "None")>>)
  ELSE Ok(<<>>)

\* any(valid in model for valid in valid_models)
ModelRecognized(model) ==
  \E i \in 1..Len(valid_models) : In(valid_models[i], model)

_validate_llm_config(path, llm_config) ==
  IF ~IsDict(llm_config)
  THEN Ok(<<ValidationIssue(ERROR, path, "llm_config must be a dict",
              <<TypeName(llm_config)>>, "None")>>)
  ELSE
    LET modelCheck ==
          IF ~In("model", llm_config)
          THEN Ok(<<ValidationIssue(WARNING, path \o <<"model">>,
                      "llm_config should specify model", <<>>, "None")>>)
          ELSE LET model == Get(llm_config, "model") IN
            IF ~CanContain(model) THEN Raised
            ELSE IF ~ModelRecognized(model)
            THEN Ok(<<ValidationIssue(WARNING, path \o <<"model">>,
                        "Unknown model. May not be supported.",
                        <<Shown(model)>>, "Common models")>>)
            ELSE Ok(<<>>)
        tempCheck ==
          IF ~In("temperature", llm_config) THEN Ok(<<>>)
          ELSE LET temp == Get(llm_config, "temperature")
                   num == IF temp.t = "bool" THEN (IF temp.b THEN 1 ELSE 0)
                          ELSE temp.n
                   two == IF temp.t = "float" THEN 20 ELSE 2
               IN
            IF ~IsNumber(temp)
            THEN Ok(<<ValidationIssue(ERROR, path \o <<"temperature">>,
                        "Temperature must be a number",
                        <<TypeName(temp)>>, "None")>>)
            ELSE IF num < 0 \/ num > two
            THEN Ok(<<ValidationIssue(WARNING, path \o <<"temperature">>,
                        "Temperature is outside typical range (0-2)",
                        <<>>, "None")>>)
            ELSE Ok(<<>>)
        tokensCheck ==
          IF ~In("max_tokens", llm_config) THEN Ok(<<>>)
          ELSE LET max_tokens == Get(llm_config, "max_tokens")
                   num == IF max_tokens.t = "bool" THEN 1 ELSE max_tokens.n
               IN
            IF ~IsInt(max_tokens)
            THEN Ok(<<ValidationIssue(ERROR, path \o <<"max_tokens">>,
                        "max_tokens must be an integer",
                        <<TypeName(max_tokens)>>, "None")>>)
            ELSE IF num > 4096
            THEN Ok(<<ValidationIssue(INFO, path \o <<"max_tokens">>,
                        "max_tokens is very high. May increase costs.",
                        <<>>, "None")>>)
            ELSE Ok(<<>>)
    IN Then(modelCheck, Then(tempCheck, tokensCheck))

_validate_agent(agent_name, agent_config) ==
  LET path == <<"agents", agent_name>>
      nameCheck ==
        IF ~MatchIdentifier(agent_name)
        THEN Ok(<<ValidationIssue(WARNING, path,
                    "Agent name should be lowercase with underscores",
                    <<agent_name>>, "Example: corrected name")>>)
        ELSE Ok(<<>>)
      rest ==
        IF ~CanContain(agent_config) THEN Raised
        ELSE IF ~In("kind", agent_config)
        THEN Ok(<<ValidationIssue(ERROR, path \o <<"kind">>,
                    "Agent must have 'kind' field", <<>>,
                    "Valid kinds: 'supervisor', 'llm_agent', 'evaluator'")>>)
        ELSE IF ~CanIndex(agent_config, "kind") THEN Raised
        ELSE
          LET kind == Get(agent_config, "kind")
              kindCheck ==
                IF ~(IsStr(kind) /\ kind.s \in valid_kinds)
                THEN Ok(<<ValidationIssue(ERROR, path \o <<"kind">>,
                            "Invalid agent kind", <<Shown(kind)>>,
                            "Valid kinds: supervisor, llm_agent, evaluator")>>)
                ELSE Ok(<<>>)
              byKind ==
                IF IsStrEq(kind, "supervisor")
                THEN _validate_supervisor_agent(agent_name, agent_config)
                ELSE IF IsStrEq(kind, "llm_agent")
                THEN _validate_llm_agent(agent_name, agent_config)
                ELSE IF IsStrEq(kind, "evaluator")
                THEN _validate_evaluator_agent(agent_name, agent_config)
                ELSE Ok(<<>>)
              llm ==
                IF In("llm_config", agent_config)
                THEN _validate_llm_config(path \o <<"llm_config">>,
                                          Get(agent_config, "llm_config"))
                ELSE Ok(<<>>)
          IN Then(kindCheck, Then(byKind, llm))
  IN Then(nameCheck, rest)

\* any(agent.get("kind") == "supervisor" for agent in agents.values()):
\* stops at the first supervisor, raises at an entry without a get method
RECURSIVE SupervisorScan(_, _)
SupervisorScan(agents, i) ==
  IF i > Len(agents.keys) THEN "no"
  ELSE LET agent == agents.val[agents.keys[i]] IN
    IF ~HasGetMethod(agent) THEN "raise"
    ELSE IF In("kind", agent) /\ IsStrEq(Get(agent, "kind"), "supervisor")
    THEN "yes"
    ELSE SupervisorScan(agents, i + 1)

RECURSIVE ValidateAgentsFrom(_, _)
ValidateAgentsFrom(agents, i) ==
  IF i > Len(agents.keys) THEN Ok(<<>>)
  ELSE Then(_validate_agent(agents.keys[i], agents.val[agents.keys[i]]),
            ValidateAgentsFrom(agents, i + 1))

_validate_agents(spec) ==
  IF ~In("agents", spec) THEN Ok(<<>>)
  ELSE LET agents == Get(spec, "agents") IN
    IF ~IsDict(agents)
    THEN Ok(<<ValidationIssue(ERROR, <<"agents">>, "Agents must be a dict",
                <<TypeName(agents)>>, "None")>>)
    ELSE IF ~Truthy(agents)
    THEN Ok(<<ValidationIssue(ERROR, <<"agents">>,
                "Agents dict cannot be empty. At least one agent required.",
                <<>>, "None")>>)
    ELSE LET scan == SupervisorScan(agents, 1) IN
      IF scan = "raise" THEN Raised
      ELSE Then(
        Ok(IF scan = "no"
           THEN <<ValidationIssue(ERROR, <<"agents">>,
                    "At least one supervisor agent is required", <<>>,
                    "Add an agent with 'kind': 'supervisor'")>>
           ELSE <<>>),
        ValidateAgentsFrom(agents, 1))


valid_types == {"http", "sql", "vectordb", "function", "internal"}
valid_methods == <<"GET", "POST", "PUT", "DELETE", "PATCH", "HEAD", "OPTIONS">>
valid_backends == {"cosmos", "redis", "memory"}

_validate_http_tool(tool_name, tool_config) ==
  LET path == <<"tools", tool_name>> IN
  IF ~In("spec", tool_config)
  THEN Ok(<<ValidationIssue(ERROR, path \o <<"spec">>,
              "HTTP tool must have 'spec' field", <<>>, "None")>>)
  ELSE LET spec == Get(tool_config, "spec") IN
    IF ~CanContain(spec) THEN Raised
    ELSE
      LET urlCheck ==
            Ok(IF ~In("url", spec)
               THEN <<ValidationIssue(ERROR, path \o <<"spec", "url">>,
                        "HTTP tool must specify 'url'", <<>>, "None")>>
               ELSE <<>>)
          methodCheck ==
            IF ~In("method", spec)
            THEN Ok(<<ValidationIssue(ERROR, path \o <<"spec", "method">>,
                        "HTTP tool must specify 'method'", <<>>,
                        "Valid methods: GET, POST, PUT, DELETE, PATCH")>>)
            ELSE IF ~CanIndex(spec, "method") THEN Raised
            ELSE LET method == Get(spec, "method") IN
              IF ~IsStr(method) THEN Raised
              ELSE IF ~\E i \in 1..Len(valid_methods) :
                        UpperChars(Chars(method.s)) = Chars(valid_methods[i])
              THEN Ok(<<ValidationIssue(WARNING, path \o <<"spec", "method">>,
                          "Unusual HTTP method", <<method.s>>,
                          "Common methods")>>)
              ELSE Ok(<<>>)
      IN Then(urlCheck, methodCheck)

_validate_sql_tool(tool_name, tool_config) ==
  LET path == <<"tools", tool_name>> IN
  IF ~In("spec", tool_config)
  THEN Ok(<<ValidationIssue(ERROR, path \o <<"spec">>,
              "SQL tool must have 'spec' field", <<>>, "None")>>)
  ELSE LET spec == Get(tool_config, "spec") IN
    IF ~CanContain(spec) THEN Raised
    ELSE IF ~In("connection_string", spec) /\ ~In("database_type", spec)
    THEN Ok(<<ValidationIssue(WARNING, path \o <<"spec">>,
                "SQL tool should specify 'connection_string' or 'database_type'",
                <<>>, "None")>>)
    ELSE Ok(<<>>)

_validate_vectordb_tool(tool_name, tool_config) ==
  LET path == <<"tools", tool_name>> IN
  IF ~In("spec", tool_config)
  THEN Ok(<<ValidationIssue(ERROR, path \o <<"spec">>,
              "VectorDB tool must have 'spec' field", <<>>, "None")>>)
  ELSE LET spec == Get(tool_config, "spec") IN
    IF ~CanContain(spec) THEN Raised
    ELSE IF ~In("provider", spec)
    THEN Ok(<<ValidationIssue(WARNING, path \o <<"spec", "provider">>,
                "VectorDB tool should specify 'provider'", <<>>,
                "Examples: 'azure_ai_search', 'pinecone'")>>)
    ELSE Ok(<<>>)

_validate_tool(tool_name, tool_config) ==
  LET path == <<"tools", tool_name>> IN
  IF ~IsDict(tool_config)
  THEN Ok(<<ValidationIssue(ERROR, path, "Tool config must be a dict",
              <<TypeName(tool_config)>>, "None")>>)
  ELSE IF ~In("type", tool_config)
  THEN Ok(<<ValidationIssue(ERROR, path \o <<"type">>,
              "Tool must have 'type' field", <<>>,
              "Valid types: 'http', 'sql', 'vectordb', 'function'")>>)
  ELSE
    LET tool_type == Get(tool_config, "type")
        typeCheck ==
          Ok(IF ~(IsStr(tool_type) /\ tool_type.s \in valid_types)
             THEN <<ValidationIssue(ERROR, path \o <<"type">>,
                      "Invalid tool type", <<Shown(tool_type)>>,
                      "Valid types: http, sql, vectordb, function, internal")>>
             ELSE <<>>)
        byType ==
          IF IsStrEq(tool_type, "http")
          THEN _validate_http_tool(tool_name, tool_config)
          ELSE IF IsStrEq(tool_type, "sql")
          THEN _validate_sql_tool(tool_name, tool_config)
          ELSE IF IsStrEq(tool_type, "vectordb")
          THEN _validate_vectordb_tool(tool_name, tool_config)
          ELSE Ok(<<>>)
    IN Then(typeCheck, byType)

RECURSIVE ValidateToolsFrom(_, _)
ValidateToolsFrom(tools, i) ==
  IF i > Len(tools.keys) THEN Ok(<<>>)
  ELSE Then(_validate_tool(tools.keys[i], tools.val[tools.keys[i]]),
            ValidateToolsFrom(tools, i + 1))

_validate_tools(spec) ==
  IF ~In("tools", spec) THEN Ok(<<>>)
  ELSE LET tools == Get(spec, "tools") IN
    IF ~IsDict(tools)
    THEN Ok(<<ValidationIssue(ERROR, <<"tools">>, "Tools must be a dict",
                <<TypeName(tools)>>, "None")>>)
    ELSE ValidateToolsFrom(tools, 1)

\* the path segment f"tasks[{idx}]" of the task at 0-based index idx
TaskSegments == <<"tasks[0]", "tasks[1]", "tasks[2]", "tasks[3]">>
TaskSegment(idx) == TaskSegments[idx + 1]

_validate_task(idx, task) ==
  LET path == <<TaskSegment(idx)>> IN
  IF ~IsDict(task)
  THEN Ok(<<ValidationIssue(ERROR, path, "Task must be a dict",
              <<TypeName(task)>>, "None")>>)
  ELSE Ok(
    (IF ~In("id", task)
     THEN <<ValidationIssue(ERROR, path \o <<"id">>,
              "Task must have 'id' field", <<>>, "None")>>
     ELSE <<>>)
    \o
    (IF ~In("type", task)
     THEN <<ValidationIssue(ERROR, path \o <<"type">>,
              "Task must have 'type' field", <<>>,
              "Valid types: 'task', 'evaluator'")>>
     ELSE <<>>)
    \o
    (IF In("agent", task) /\ ~IsStr(Get(task, "agent"))
     THEN <<ValidationIssue(ERROR, path \o <<"agent">>,
              "Task agent must be a string",
              <<TypeName(Get(task, "agent"))>>, "None")>>
     ELSE <<>>))

RECURSIVE ValidateTasksFrom(_, _)
ValidateTasksFrom(tasks, i) ==
  IF i > Len(tasks.items) THEN Ok(<<>>)
  ELSE Then(_validate_task(i - 1, tasks.items[i]),
            ValidateTasksFrom(tasks, i + 1))

_validate_tasks(spec) ==
  IF ~In("tasks", spec) THEN Ok(<<>>)
  ELSE LET tasks == Get(spec, "tasks") IN
    IF ~IsList(tasks)
    THEN Ok(<<ValidationIssue(ERROR, <<"tasks">>, "Tasks must be a list",
                <<TypeName(tasks)>>, "None")>>)
    ELSE ValidateTasksFrom(tasks, 1)

_validate_state_management(spec) ==
  IF ~In("state_management", spec)
  THEN Ok(<<ValidationIssue(INFO, <<"state_management">>,
              "No state management configured. Using defaults.", <<>>,
              "Consider adding state_management section")>>)
  ELSE LET state_mgmt == Get(spec, "state_management") IN
    IF ~CanContain(state_mgmt) THEN Raised
    ELSE IF ~In("checkpointing", state_mgmt) THEN Ok(<<>>)
    ELSE IF ~CanIndex(state_mgmt, "checkpointing") THEN Raised
    ELSE LET checkpoint == Get(state_mgmt, "checkpointing") IN
      IF ~CanContain(checkpoint) THEN Raised
      ELSE IF ~In("backend", checkpoint) THEN Ok(<<>>)
      ELSE IF ~CanIndex(checkpoint, "backend") THEN Raised
      ELSE LET backend == Get(checkpoint, "backend") IN
        IF ~(IsStr(backend) /\ backend.s \in valid_backends)
        THEN Ok(<<ValidationIssue(WARNING,
                    <<"state_management", "checkpointing", "backend">>,
                    "Unknown checkpointing backend", <<Shown(backend)>>,
                    "Supported: cosmos, redis, memory")>>)
        ELSE Ok(<<>>)

ux_types == <<"teams", "webchat", "api">>

_validate_ux(spec) ==
  IF ~In("ux", spec) THEN Ok(<<>>)
  ELSE LET ux == Get(spec, "ux") IN
    IF ~IsDict(ux)
    THEN Ok(<<ValidationIssue(ERROR, <<"ux">>, "UX must be a dict",
                <<TypeName(ux)>>, "None")>>)
    ELSE
      LET has_enabled_ux ==
            \E i \in 1..Len(ux_types) :
               /\ In(ux_types[i], ux)
               /\ IsDict(Get(ux, ux_types[i]))
               /\ In("enabled", Get(ux, ux_types[i]))
               /\ Truthy(Get(Get(ux, ux_types[i]), "enabled"))
      IN IF ~has_enabled_ux
         THEN Ok(<<ValidationIssue(WARNING, <<"ux">>,
                     "No UX interfaces enabled.", <<>>,
                     "Enable at least one: teams, webchat, or api")>>)
         ELSE Ok(<<>>)

_validate_deployment(spec) ==
  IF ~In("deployment", spec) THEN Ok(<<>>)
  ELSE LET deployment == Get(spec, "deployment") IN
    IF ~IsDict(deployment)
    THEN Ok(<<ValidationIssue(ERROR, <<"deployment">>,
                "Deployment must be a dict", <<TypeName(deployment)>>,
                "None")>>)
    ELSE IF ~In("environments", deployment) THEN Ok(<<>>)
    ELSE LET environments == Get(deployment, "environments") IN
      IF ~IsDict(environments)
      THEN Ok(<<ValidationIssue(ERROR, <<"deployment", "environments">>,
                  "Environments must be a dict", <<TypeName(environments)>>,
                  "None")>>)
      ELSE IF ~Truthy(environments)
      THEN Ok(<<ValidationIssue(WARNING, <<"deployment", "environments">>,
                  "No deployment environments configured", <<>>, "None")>>)
      ELSE Ok(<<>>)

_validate_authentication(spec) ==
  IF ~In("authentication", spec) THEN Ok(<<>>)
  ELSE LET auth == Get(spec, "authentication") IN
    IF ~IsDict(auth)
    THEN Ok(<<ValidationIssue(ERROR, <<"authentication">>,
                "Authentication must be a dict", <<TypeName(auth)>>,
                "None")>>)
    ELSE Ok(<<>>)


\* for tool in agent_tools: if tool not in defined_tools: ERROR
RECURSIVE ToolRefsFrom(_, _, _, _)
ToolRefsFrom(agent_name, agent_tools, defined_tools, i) ==
  IF i > Len(agent_tools.items) THEN Ok(<<>>)
  ELSE LET tool == agent_tools.items[i] IN
    IF ~Hashable(tool) THEN Raised
    ELSE Then(
      Ok(IF ~(IsStr(tool) /\ tool.s \in defined_tools)
         THEN <<ValidationIssue(ERROR, <<"agents", agent_name, "tools">>,
                  "Agent references undefined tool", <<Shown(tool)>>,
                  "Define tool in tools section or remove reference")>>
         ELSE <<>>),
      ToolRefsFrom(agent_name, agent_tools, defined_tools, i + 1))

RECURSIVE AgentToolRefsFrom(_, _, _)
AgentToolRefsFrom(agents, defined_tools, i) ==
  IF i > Len(agents.keys) THEN Ok(<<>>)
  ELSE
    LET agent_name == agents.keys[i]
        agent_config == agents.val[agent_name]
        this ==
          IF ~CanContain(agent_config) THEN Raised
          ELSE IF ~In("tools", agent_config) THEN Ok(<<>>)
          ELSE IF ~CanIndex(agent_config, "tools") THEN Raised
          ELSE IF IsList(Get(agent_config, "tools"))
          THEN ToolRefsFrom(agent_name, Get(agent_config, "tools"),
                            defined_tools, 1)
          ELSE Ok(<<>>)
    IN Then(this, AgentToolRefsFrom(agents, defined_tools, i + 1))

RECURSIVE TaskAgentRefsFrom(_, _, _)
TaskAgentRefsFrom(tasks, defined_agents, i) ==
  IF i > Len(tasks.items) THEN Ok(<<>>)
  ELSE
    LET task == tasks.items[i]
        this ==
          IF IsDict(task) /\ In("agent", task)
          THEN LET agent_name == Get(task, "agent") IN
            IF ~Hashable(agent_name) THEN Raised
            ELSE Ok(IF ~(IsStr(agent_name) /\ agent_name.s \in defined_agents)
                    THEN <<ValidationIssue(ERROR,
                             <<TaskSegment(i - 1), "agent">>,
                             "Task references undefined agent",
                             <<Shown(agent_name)>>,
                             "Define agent in agents section or fix reference")>>
                    ELSE <<>>)
          ELSE Ok(<<>>)
    IN Then(this, TaskAgentRefsFrom(tasks, defined_agents, i + 1))

_validate_cross_references(spec) ==
  LET toolRefs ==
        IF In("agents", spec) /\ In("tools", spec)
        THEN IF ~IsDict(Get(spec, "tools")) THEN Raised
             ELSE IF ~IsDict(Get(spec, "agents")) THEN Raised
             ELSE AgentToolRefsFrom(Get(spec, "agents"),
                                    SeqRange(Get(spec, "tools").keys), 1)
        ELSE Ok(<<>>)
      taskRefs ==
        IF In("tasks", spec) /\ In("agents", spec)
        THEN IF ~IsDict(Get(spec, "agents")) THEN Raised
             ELSE LET tasks == Get(spec, "tasks") IN
               IF IsList(tasks)
               THEN TaskAgentRefsFrom(tasks,
                                      SeqRange(Get(spec, "agents").keys), 1)
               \* iterating a string or a mapping yields strings, never a task
               ELSE IF tasks.t \in {"str", "dict"} THEN Ok(<<>>)
               ELSE Raised
        ELSE Ok(<<>>)
  IN Then(toolRefs, taskRefs)

MaxRecommendedAgents == 10

_validate_best_practices(spec) ==
  LET descr ==
        Ok(IF ~In("description", spec)
           THEN <<ValidationIssue(INFO, <<"root", "description">>,
                    "Consider adding a description field for documentation",
                    <<>>, "None")>>
           ELSE <<>>)
      count ==
        IF ~In("agents", spec) THEN Ok(<<>>)
        ELSE IF ~HasLen(Get(spec, "agents")) THEN Raised
        ELSE Ok(IF PyLen(Get(spec, "agents")) > MaxRecommendedAgents
                THEN <<ValidationIssue(INFO, <<"agents">>,
                         "Large number of agents.", <<>>, "None")>>
                ELSE <<>>)
      monitoring ==
        IF ~In("deployment", spec) THEN Ok(<<>>)
        ELSE IF ~CanContain(Get(spec, "deployment")) THEN Raised
        ELSE Ok(IF ~In("monitoring", Get(spec, "deployment"))
                THEN <<ValidationIssue(INFO, <<"deployment", "monitoring">>,
                         "Consider enabling monitoring", <<>>, "None")>>
                ELSE <<>>)
  IN Then(descr, Then(count, monitoring))

\* the checks with the best-practice hints moved before the cross-references
RunChecks_BestPracticesEarly(spec) ==
  Then(_validate_required_fields(spec),
  Then(_validate_id(spec),
  Then(_validate_version(spec),
  Then(_validate_agents(spec),
  Then(_validate_tools(spec),
  Then(_validate_tasks(spec),
  Then(_validate_state_management(spec),
  Then(_validate_ux(spec),
  Then(_validate_deployment(spec),
  Then(_validate_authentication(spec),
  Then(_validate_best_practices(spec),
       _validate_cross_references(spec))))))))))))

\* the twelve checks, in the order validate() runs them
RunChecks(spec) ==
  Then(_validate_required_fields(spec),
  Then(_validate_id(spec),
  Then(_validate_version(spec),
  Then(_validate_agents(spec),
  Then(_validate_tools(spec),
  Then(_validate_tasks(spec),
  Then(_validate_state_management(spec),
  Then(_validate_ux(spec),
  Then(_validate_deployment(spec),
  Then(_validate_authentication(spec),
  Then(_validate_cross_references(spec),
       _validate_best_practices(spec))))))))))))

HasErrors(issues) == \E i \in 1..Len(issues) : issues[i].severity = ERROR

\* a validator for which a warning, too, makes the spec invalid
validate_WarningsInvalid(spec) ==
  LET r == RunChecks(spec) IN
    IF r.raised THEN [raised |-> TRUE, is_valid |-> FALSE, issues |-> <<>>]
    ELSE [raised |-> FALSE,
          is_valid |-> \A i \in 1..Len(r.issues) :
                          r.issues[i].severity \notin {ERROR, WARNING},
          issues |-> r.issues]

\* SpecValidator.validate: (is_valid, issues), or an exception
validate(spec) ==
  LET r == RunChecks(spec) IN
    IF r.raised THEN [raised |-> TRUE, is_valid |-> FALSE, issues |-> <<>>]
    ELSE [raised |-> FALSE, is_valid |-> ~HasErrors(r.issues),
          issues |-> r.issues]


(***************************************************************************)
(* Part 3: GenerationManifest and should_regenerate_file.                  *)
(*                                                                         *)
(* The output directory holds the paths in Paths, whose content is a       *)
(* number (0: the file does not exist), and the manifest file.  A path     *)
(* outside the output directory stands for every such path.                *)
(***************************************************************************)
ReadmePath == "README.md"
LicensePath == "LICENSE"
NotesPath == "notes.md"
ToolNames == {"t1", "t2"}
ToolPath(tool_name) ==
  IF tool_name = "t1" THEN "tools/t1/function_app.py"
  ELSE "tools/t2/function_app.py"
Paths == {ReadmePath, LicensePath, NotesPath} \cup {ToolPath(t) : t \in ToolNames}
ManifestPath == ".goalgen/manifest.json"
OutsidePath == "/elsewhere/file.py"

\* bounds of the model
MaxContent == 2
MaxRuns == 2
MaxEdits == 1
MaxFileChanges == 2

Contents == 1..MaxContent

\* the persisted manifest file: absent, text that is not JSON, a JSON
\* document that is not a mapping, or a document written by save()
NoFile == [k |-> "absent", generated_at |-> 0, spec |-> <<>>, files |-> <<>>]
UnparsableFile ==
  [k |-> "unparsable", generated_at |-> 0, spec |-> <<>>, files |-> <<>>]
NonMappingFile ==
  [k |-> "nonmapping", generated_at |-> 0, spec |-> <<>>, files |-> <<>>]
\* bytes that are not UTF-8 text
UndecodableFile ==
  [k |-> "undecodable", generated_at |-> 0, spec |-> <<>>, files |-> <<>>]
\* the manifest files that no save() wrote
ForeignFiles == {UnparsableFile, NonMappingFile, UndecodableFile}

\* the in-memory manifest (self.manifest)
_empty_manifest ==
  [k |-> "dict", generated_at |-> 0, spec |-> <<>>, files |-> <<>>]
NonMappingManifest ==
  [k |-> "nonmapping", generated_at |-> 0, spec |-> <<>>, files |-> <<>>]

\* the top-level keys of a manifest file: those save() gives self.manifest
\* (lines 55-66) in a file it wrote, none in any other file
TopLevelKeys(mfile) ==
  IF mfile.k = "doc" THEN {"version", "generated_at", "spec", "files"} ELSE {}

\* json.dumps(self.manifest, indent=2), as file content
json_dumps(manifest) ==
  [k |-> "doc", generated_at |-> manifest.generated_at,
   spec |-> manifest.spec, files |-> manifest.files]

\* GenerationManifest._load, lines 31-35: read_text() raises UnicodeDecodeError
\* on bytes that are not text, which the except clause does not catch
LoadRaises(mfile) == mfile.k = "undecodable"

\* GenerationManifest._load
_load(mfile) ==
  IF mfile.k # "absent"
  THEN CASE mfile.k = "unparsable" -> _empty_manifest
         [] mfile.k = "nonmapping" -> NonMappingManifest
         [] OTHER -> [k |-> "dict", generated_at |-> mfile.generated_at,
                      spec |-> mfile.spec, files |-> mfile.files]
  ELSE _empty_manifest

\* Path.exists()
Exists(d, mfile, path) ==
  IF path = ManifestPath THEN mfile.k # "absent"
  ELSE IF path = OutsidePath THEN TRUE
  ELSE d[path] # 0

\* the bytes of a file, as a number that identifies them
ReadBytes(d, mfile, path) ==
  IF path = ManifestPath
  THEN (CASE mfile.k = "unparsable" -> MaxContent + 1
          [] mfile.k = "nonmapping" -> MaxContent + 2
          [] mfile.k = "undecodable" -> MaxContent + 3
          [] OTHER -> MaxContent + 4 + mfile.generated_at)
  ELSE IF path = OutsidePath THEN 0
  ELSE d[path]

\* hashlib.sha256(b).hexdigest()[:16]: distinct bytes of the model get
\* distinct fingerprints
Sha256Hex16(bytes) == (bytes * 7 + 3) % 97

_hash_file(d, mfile, path) == Sha256Hex16(ReadBytes(d, mfile, path))

\* Path.stat().st_size
StatSize(d, mfile, path) == 10 * ReadBytes(d, mfile, path)

\* spec.get(key, default)
SpecGet(spec, key, default) == IF In(key, spec) THEN Get(spec, key) ELSE default

\* list(spec.get(key, {}).keys())
KeysOf(spec, key) == SpecGet(spec, key, EmptyDict).keys
CanKeys(spec, key) == IsDict(SpecGet(spec, key, EmptyDict))

\* a serialisation that sorts the keys of the outermost mapping only
Canonical_TopLevelOnly(x) ==
  IF x.t = "dict" THEN [t |-> "dict", keys |-> SeqRange(x.keys), val |-> x.val]
  ELSE x

\* json.dumps(d, sort_keys=True): the document with the key order dropped
RECURSIVE Canonical(_)
Canonical(x) ==
  CASE x.t = "dict" ->
         [t |-> "dict", keys |-> SeqRange(x.keys),
          val |-> [key \in SeqRange(x.keys) |-> Canonical(x.val[key])]]
    [] x.t = "list" ->
         [t |-> "list",
          items |-> [i \in 1..Len(x.items) |-> Canonical(x.items[i])]]
    [] OTHER -> x


\* The goal specs given to the shell.  SpecA is free of diagnostics; SpecB
\* changes tool t1, adds tool t2 and an agent, and has warnings only; SpecX
\* lacks the id; SpecR has a state_management value that is not a mapping.
SupervisorAgent ==
  JD(<<"kind", "policy">>,
     [kind |-> JS("supervisor"), policy |-> JS("simple_router")])
WorkerAgent ==
  JD(<<"kind", "tools">>,
     [kind |-> JS("llm_agent"), tools |-> JL(<<JS("t2")>>)])
FunctionTool == JD(<<"type">>, [type |-> JS("function")])
HttpTool ==
  JD(<<"type", "spec">>,
     [type |-> JS("http"),
      spec |-> JD(<<"url", "method">>,
                  [url |-> JS("https://example.org"), method |-> JS("get")])])

SpecA ==
  JD(<<"id", "title", "version", "description", "agents", "tools",
       "state_management">>,
     [id |-> JS("trip"), title |-> JS("Trip"), version |-> JS("v100"),
      description |-> JS("plan a trip"),
      agents |-> JD(<<"sup">>, [sup |-> SupervisorAgent]),
      tools |-> JD(<<"t1">>, [t1 |-> FunctionTool]),
      state_management |-> EmptyDict])
SpecB ==
  JD(<<"id", "title", "version", "schema_version", "agents", "tools">>,
     [id |-> JS("trip"), title |-> JS("Trip planner"), version |-> JS("v100a"),
      schema_version |-> JI(2),
      agents |-> JD(<<"sup", "worker">>,
                    [sup |-> SupervisorAgent, worker |-> WorkerAgent]),
      tools |-> JD(<<"t1", "t2">>, [t1 |-> HttpTool, t2 |-> FunctionTool])])
SpecX ==
  JD(<<"title", "version", "agents", "tools">>,
     [title |-> JS("Trip"), version |-> JS("v100"),
      agents |-> JD(<<"sup">>, [sup |-> SupervisorAgent]),
      tools |-> JD(<<"t1">>, [t1 |-> FunctionTool])])
SpecR ==
  JD(<<"id", "title", "version", "description", "agents", "tools",
       "state_management">>,
     [id |-> JS("trip"), title |-> JS("Trip"), version |-> JS("v100"),
      description |-> JS("plan a trip"),
      agents |-> JD(<<"sup">>, [sup |-> SupervisorAgent]),
      tools |-> JD(<<"t1">>, [t1 |-> FunctionTool]),
      state_management |-> JB(TRUE)])

SpecTable == [A |-> SpecA, B |-> SpecB, X |-> SpecX, R |-> SpecR]
SpecNames == DOMAIN SpecTable

\* the serialised documents the model tells apart, each with the number that
\* identifies its bytes; one further number stands for any other bytes
KnownDocuments == <<Canonical(SpecA), Canonical(SpecB), Canonical(SpecX),
                    Canonical(SpecR)>>
Encoded(canonical) ==
  IF \E i \in 1..Len(KnownDocuments) : KnownDocuments[i] = canonical
  THEN CHOOSE i \in 1..Len(KnownDocuments) : KnownDocuments[i] = canonical
  ELSE Len(KnownDocuments) + 1

\* GenerationManifest._hash_dict
_hash_dict(d) == Sha256Hex16(Encoded(Canonical(d)))

\* the "spec" entry save() builds (lines 58-64); it raises when agents or
\* tools has no keys()
SaveRaises(spec) == ~CanKeys(spec, "agents") \/ ~CanKeys(spec, "tools")
SpecSummary(spec) ==
  [hash |-> _hash_dict(spec),
   version |-> SpecGet(spec, "version", JS("v100")),
   schema_version |-> SpecGet(spec, "schema_version", JI(1)),
   agents |-> KeysOf(spec, "agents"),
   tools |-> KeysOf(spec, "tools")]

\* a variant of save() that records every listed file, present or not
FileEntries_Unchecked(d, mfile, generated_files, at) ==
  [path \in generated_files |->
     [hash |-> _hash_file(d, mfile, path), generated_at |-> at,
      size |-> StatSize(d, mfile, path)]]

\* the "files" entry save() builds (lines 68-75) from the listed files
FileEntries(d, mfile, generated_files, at) ==
  [path \in {f \in generated_files : Exists(d, mfile, f)} |->
     [hash |-> _hash_file(d, mfile, path), generated_at |-> at,
      size |-> StatSize(d, mfile, path)]]

\* GenerationManifest.save, lines 55-75: the new self.manifest
SavedManifest(spec, d, mfile, generated_files, at) ==
  [k |-> "dict", generated_at |-> at, spec |-> <<SpecSummary(spec)>>,
   files |-> FileEntries(d, mfile, generated_files, at)]

\* a call's outcome: a returned value, or an exception
Returns(v) == [raised |-> FALSE, value |-> v]
Raises(v) == [raised |-> TRUE, value |-> v]

\* a variant of is_modified that does not report a deleted file
is_modified_IgnoringDeleted(manifest, d, mfile, file_path) ==
  IF file_path = OutsidePath THEN Returns(FALSE)
  ELSE IF manifest.k # "dict" THEN Raises(FALSE)
  ELSE IF file_path \notin DOMAIN manifest.files THEN Returns(FALSE)
  ELSE IF ~Exists(d, mfile, file_path) THEN Returns(FALSE)
  ELSE Returns(manifest.files[file_path].hash # _hash_file(d, mfile, file_path))

\* GenerationManifest.is_modified
is_modified(manifest, d, mfile, file_path) ==
  IF file_path = OutsidePath THEN Returns(FALSE)
  ELSE IF manifest.k # "dict" THEN Raises(FALSE)
  ELSE IF file_path \notin DOMAIN manifest.files THEN Returns(FALSE)
  ELSE IF ~Exists(d, mfile, file_path) THEN Returns(TRUE)
  ELSE Returns(manifest.files[file_path].hash # _hash_file(d, mfile, file_path))

\* ==, on JSON values: numbers compare by value
NumValue(x) ==
  CASE x.t = "bool" -> (IF x.b THEN 10 ELSE 0)
    [] x.t = "int" -> 10 * x.n
    [] OTHER -> x.n
PyEq(a, b) == IF IsNumber(a) /\ IsNumber(b) THEN NumValue(a) = NumValue(b)
              ELSE a = b

\* a variant of detect_spec_changes that reports the recorded names that are
\* still present as removed
detect_spec_changes_KeptAsRemoved(manifest, new_spec) ==
  IF manifest.k # "dict" THEN Raises(<<>>)
  ELSE IF ~CanKeys(new_spec, "agents") \/ ~CanKeys(new_spec, "tools")
  THEN Raises(<<>>)
  ELSE IF manifest.spec = <<>>
  THEN Returns([added_agents |-> SeqRange(KeysOf(new_spec, "agents")),
                removed_agents |-> {},
                added_tools |-> SeqRange(KeysOf(new_spec, "tools")),
                removed_tools |-> {},
                schema_version_changed |-> FALSE,
                is_first_generation |-> TRUE])
  ELSE
    LET old_spec == manifest.spec[1]
        old_agents == SeqRange(old_spec.agents)
        new_agents == SeqRange(KeysOf(new_spec, "agents"))
        old_tools == SeqRange(old_spec.tools)
        new_tools == SeqRange(KeysOf(new_spec, "tools"))
    IN Returns([added_agents |-> new_agents \ old_agents,
                removed_agents |-> old_agents \cap new_agents,
                added_tools |-> new_tools \ old_tools,
                removed_tools |-> old_tools \cap new_tools,
                schema_version_changed |->
                  ~PyEq(old_spec.schema_version,
                        SpecGet(new_spec, "schema_version", JI(1))),
                is_first_generation |-> FALSE])

\* a variant of detect_spec_changes that reports a schema change whenever the
\* fingerprint of the new spec differs from the recorded one
detect_spec_changes_ComparingHash(manifest, new_spec) ==
  IF manifest.k # "dict" THEN Raises(<<>>)
  ELSE IF ~CanKeys(new_spec, "agents") \/ ~CanKeys(new_spec, "tools")
  THEN Raises(<<>>)
  ELSE
    LET first == manifest.spec = <<>>
        old_agents == IF first THEN {} ELSE SeqRange(manifest.spec[1].agents)
        old_tools == IF first THEN {} ELSE SeqRange(manifest.spec[1].tools)
        new_agents == SeqRange(KeysOf(new_spec, "agents"))
        new_tools == SeqRange(KeysOf(new_spec, "tools"))
    IN Returns([added_agents |-> new_agents \ old_agents,
                removed_agents |-> old_agents \ new_agents,
                added_tools |-> new_tools \ old_tools,
                removed_tools |-> old_tools \ new_tools,
                schema_version_changed |->
                  ~first /\ manifest.spec[1].hash # _hash_dict(new_spec),
                is_first_generation |-> first])

\* GenerationManifest.detect_spec_changes
detect_spec_changes(manifest, new_spec) ==
  IF manifest.k # "dict" THEN Raises(<<>>)
  ELSE IF manifest.spec = <<>>
  THEN IF ~CanKeys(new_spec, "agents") \/ ~CanKeys(new_spec, "tools")
       THEN Raises(<<>>)
       ELSE Returns([added_agents |-> SeqRange(KeysOf(new_spec, "agents")),
                     removed_agents |-> {},
                     added_tools |-> SeqRange(KeysOf(new_spec, "tools")),
                     removed_tools |-> {},
                     schema_version_changed |-> FALSE,
                     is_first_generation |-> TRUE])
  ELSE IF ~CanKeys(new_spec, "agents") \/ ~CanKeys(new_spec, "tools")
  THEN Raises(<<>>)
  ELSE
    LET old_spec == manifest.spec[1]
        old_agents == SeqRange(old_spec.agents)
        new_agents == SeqRange(KeysOf(new_spec, "agents"))
        old_tools == SeqRange(old_spec.tools)
        new_tools == SeqRange(KeysOf(new_spec, "tools"))
    IN Returns([added_agents |-> new_agents \ old_agents,
                removed_agents |-> old_agents \ new_agents,
                added_tools |-> new_tools \ old_tools,
                removed_tools |-> old_tools \ new_tools,
                schema_version_changed |->
                  ~PyEq(old_spec.schema_version,
                        SpecGet(new_spec, "schema_version", JI(1))),
                is_first_generation |-> FALSE])

\* a variant of should_regenerate_file that regenerates a modified file
should_regenerate_file_Overwriting(file_path, manifest, d, mfile, incremental, force) ==
  IF force THEN Returns(<<TRUE, "forced regeneration">>)
  ELSE IF ~Exists(d, mfile, file_path)
  THEN Returns(<<TRUE, "file does not exist">>)
  ELSE IF ~incremental
  THEN Returns(<<TRUE, "full regeneration (not incremental)">>)
  ELSE IF manifest.k # "dict" /\ file_path # OutsidePath
  THEN Raises(<<FALSE, "exception">>)
  ELSE IF file_path # OutsidePath /\ file_path \in DOMAIN manifest.files
          /\ manifest.files[file_path].hash # _hash_file(d, mfile, file_path)
  THEN Returns(<<TRUE, "file changed">>)
  ELSE Returns(<<FALSE, "file unchanged (skipping)">>)

\* should_regenerate_file
should_regenerate_file(file_path, manifest, d, mfile, incremental, force) ==
  IF force THEN Returns(<<TRUE, "forced regeneration">>)
  ELSE IF ~Exists(d, mfile, file_path)
  THEN Returns(<<TRUE, "file does not exist">>)
  ELSE IF ~incremental
  THEN Returns(<<TRUE, "full regeneration (not incremental)">>)
  ELSE LET modified == is_modified(manifest, d, mfile, file_path) IN
    IF modified.raised THEN Raises(<<FALSE, "exception">>)
    ELSE IF modified.value
    THEN Returns(<<FALSE,
           "file was modified by user (skipping to preserve changes)">>)
    ELSE Returns(<<FALSE, "file unchanged (skipping)">>)


(***************************************************************************)
(* Part 4: the generators and main().                                      *)
(***************************************************************************)
VARIABLES
  disk,            \* Paths -> content of the file (0: absent)
  manifestFile,    \* the file <out>/.goalgen/manifest.json
  dirExists,       \* the output directory exists
  now,             \* the clock read by datetime.now()
  runs,            \* number of generator invocations started
  edits,           \* number of changes made by the user
  pc,              \* per process: where main() is
  args,            \* per process: the parsed command line
  manifest,        \* per process: GenerationManifest.manifest
  idx,             \* per process: position in the targets list
  run,             \* per process: what the current run has done so far
  m,               \* a GenerationManifest object driven call by call
  ret,             \* the last call on m, with its arguments and outcome
  doc,             \* a goal spec document handed to SpecValidator
  validation,      \* the outcome of the last validate(doc)
  validator,       \* a SpecValidator object: its fields spec and issues
  lists,           \* the list objects validators have created, by identity
  earlier          \* the outcome of the call before the last, as first returned

vars == <<disk, manifestFile, dirExists, now, runs, edits, pc, args,
          manifest, idx, run, m, ret, doc, validation,
          validator, lists, earlier>>
fsVars == <<disk, manifestFile, dirExists>>
procVars == <<pc, args, manifest, idx, run, runs>>
apiVars == <<m, ret>>
valVars == <<doc, validation, validator, lists, earlier>>

Procs == {"p1", "p2"}

\* SUB_GENERATORS, as far as the generators are modelled
SUB_GENERATORS == {"scaffold", "tools"}
\* the values of --targets
TargetLists == {<<"scaffold", "tools">>, <<"nosuch", "tools">>}

\* the command lines: every flag by itself, --incremental with --force, an
\* unknown target and the unusable specs with the default flags
AllArgs == [spec : SpecNames, targets : TargetLists, dry_run : BOOLEAN,
         incremental : BOOLEAN, force : BOOLEAN, skip_validation : BOOLEAN]
Args ==
  {a \in AllArgs :
     /\ ~(a.dry_run /\ a.skip_validation)
     /\ (a.dry_run \/ a.skip_validation) => (~a.incremental /\ ~a.force)
     /\ a.targets # <<"scaffold", "tools">> =>
          (a.spec \in {"A", "B"} /\ ~a.dry_run /\ ~a.skip_validation
           /\ ~a.incremental /\ ~a.force)
     /\ a.spec \notin {"A", "B"} =>
          (~a.dry_run /\ ~a.incremental /\ ~a.force)}
NoArgs == [spec |-> "A", targets |-> <<"scaffold", "tools">>,
           dry_run |-> FALSE, incremental |-> FALSE, force |-> FALSE,
           skip_validation |-> FALSE]

FreshRun == [validation |-> "none", invoked |-> 0, made_dir |-> FALSE,
             saved |-> FALSE, exit |-> "none"]

\* TemplateEngine.render for the scaffold templates: the output follows the
\* title of the goal
RenderScaffold(spec) ==
  IF IsStrEq(SpecGet(spec, "title", JS("Trip")), "Trip") THEN 1 ELSE 2
\* TemplateEngine.render for the tool templates: the output follows the tool
\* type
RenderTool(tool_config) ==
  IF In("type", tool_config) /\ IsStrEq(Get(tool_config, "type"), "function")
  THEN 1 ELSE 2

\* x.get(k, {}).get(...) chains of get_context_from_spec and scaffold
GetChainRaises(spec, key, sub) ==
  \/ ~IsDict(SpecGet(spec, key, EmptyDict))
  \/ ~IsDict(SpecGet(SpecGet(spec, key, EmptyDict), sub, EmptyDict))

\* template_engine.get_context_from_spec raises on a spec it cannot read
ContextRaises(spec) ==
  \/ ~In("id", spec)
  \/ ~IsStr(Get(spec, "id"))
  \/ \E key \in {"tasks", "agents", "tools", "evaluators"} :
        ~HasLen(SpecGet(spec, key, EmptyDict))
  \/ GetChainRaises(spec, "ux", "teams")
  \/ GetChainRaises(spec, "ux", "webchat")
  \/ ~IsDict(SpecGet(spec, "deployment", EmptyDict))

\* generators/scaffold.py generate: README.md and LICENSE stand for the files
\* it renders
ScaffoldGenerate(spec, d, dry_run) ==
  IF ContextRaises(spec) THEN [raised |-> TRUE, disk |-> d]
  ELSE IF dry_run THEN [raised |-> FALSE, disk |-> d]
  ELSE [raised |-> FALSE,
        disk |-> [d EXCEPT ![ReadmePath] = RenderScaffold(spec),
                           ![LicensePath] = RenderScaffold(spec)]]

\* generators/tools.py generate, the loop over tools.items(): function_app.py
\* stands for the files rendered for one tool
RECURSIVE ToolsLoop(_, _, _, _)
ToolsLoop(tools, i, d, dry_run) ==
  IF i > Len(tools.keys) THEN [raised |-> FALSE, disk |-> d]
  ELSE LET tool_name == tools.keys[i]
           tool_config == tools.val[tool_name]
       IN IF ~HasGetMethod(tool_config) THEN [raised |-> TRUE, disk |-> d]
          ELSE ToolsLoop(tools, i + 1,
                 IF dry_run THEN d
                 ELSE [d EXCEPT ![ToolPath(tool_name)] = RenderTool(tool_config)],
                 dry_run)

ToolsGenerate(spec, d, dry_run) ==
  LET tools == SpecGet(spec, "tools", EmptyDict) IN
    IF ~Truthy(tools) THEN [raised |-> FALSE, disk |-> d]
    ELSE IF ~IsDict(tools) THEN [raised |-> TRUE, disk |-> d]
    ELSE ToolsLoop(tools, 1, d, dry_run)

\* SUB_GENERATORS[t](spec, out_dir, dry_run=args.dry_run)
Generate(target, spec, d, dry_run) ==
  IF target = "scaffold" THEN ScaffoldGenerate(spec, d, dry_run)
  ELSE ToolsGenerate(spec, d, dry_run)

\* the patterns of the rglob calls in main (lines 157-161)
TrackedSuffix(path) ==
  path \in {ReadmePath, NotesPath, ManifestPath}
           \cup {ToolPath(t) : t \in ToolNames}
\* the files main collects for save()
CollectGeneratedFiles(d, mfile) ==
  {path \in Paths \cup {ManifestPath} :
     TrackedSuffix(path) /\ Exists(d, mfile, path)}

\* the exit status of the process
ExitStatus(how) ==
  CASE how = "ok" -> 0
    [] how = "interrupt" -> 130
    [] OTHER -> 1

\* a variant of main that stops on warnings as well
AbortOnIssues_Strict(issues) ==
  \E i \in 1..Len(issues) : issues[i].severity \in {ERROR, WARNING}
\* main, lines 72-80: the run stops when the validator reported errors
AbortOnIssues(issues) == HasErrors(issues)
\* a variant of main where --force skips the validation as well
ShouldValidate_UnlessForced(a) == ~a.skip_validation /\ ~a.force
\* main, line 62
ShouldValidate(a) == ~a.skip_validation

Running(p) == pc[p] \notin {"idle", "exited"}
Exit(p, how) ==
  /\ pc' = [pc EXCEPT ![p] = "exited"]
  /\ run' = [run EXCEPT ![p].exit = how]

\* main, lines 41-59: parse the command line and load the spec
StartRun(p, a) ==
  /\ pc[p] = "idle"
  /\ runs < MaxRuns
  /\ runs' = runs + 1
  /\ pc' = [pc EXCEPT ![p] = "validate"]
  /\ args' = [args EXCEPT ![p] = a]
  /\ UNCHANGED <<fsVars, now, edits, idx, run, manifest, apiVars, valVars>>

\* the process of a finished run goes away
Reap(p) ==
  /\ pc[p] = "exited"
  /\ pc' = [pc EXCEPT ![p] = "idle"]
  /\ args' = [args EXCEPT ![p] = NoArgs]
  /\ idx' = [idx EXCEPT ![p] = 1]
  /\ run' = [run EXCEPT ![p] = FreshRun]
  /\ manifest' = [manifest EXCEPT ![p] = _empty_manifest]
  /\ UNCHANGED <<fsVars, now, edits, runs, apiVars, valVars>>

\* main, lines 61-100
Validate(p) ==
  /\ pc[p] = "validate"
  /\ IF ShouldValidate(args[p])
     THEN LET result == validate(SpecTable[args[p].spec]) IN
       IF result.raised
       THEN /\ pc' = [pc EXCEPT ![p] = "exited"]
            /\ run' = [run EXCEPT ![p].validation = "raised",
                                  ![p].exit = "exception"]
       ELSE IF AbortOnIssues(result.issues)
       THEN /\ pc' = [pc EXCEPT ![p] = "exited"]
            /\ run' = [run EXCEPT ![p].validation =
                              IF HasErrors(result.issues) THEN "errors"
                              ELSE "clean",
                                  ![p].exit = "validation"]
       ELSE /\ pc' = [pc EXCEPT ![p] = "makedirs"]
            /\ run' = [run EXCEPT ![p].validation =
                              IF HasErrors(result.issues) THEN "errors"
                              ELSE "clean"]
     ELSE /\ pc' = [pc EXCEPT ![p] = "makedirs"]
          /\ run' = [run EXCEPT ![p].validation = "skipped"]
  /\ UNCHANGED <<fsVars, now, edits, args, manifest, idx, runs, apiVars, valVars>>

\* main, lines 102-103
MakeDirs(p) ==
  /\ pc[p] = "makedirs"
  /\ dirExists' = TRUE
  /\ pc' = [pc EXCEPT ![p] = "load"]
  /\ run' = [run EXCEPT ![p].made_dir = TRUE]
  /\ UNCHANGED <<disk, manifestFile, now, edits, args, manifest, idx, runs,
                 apiVars, valVars>>

\* main, lines 105-137: load the manifest; --incremental reports the changes
LoadManifest(p) ==
  /\ pc[p] = "load"
  /\ IF LoadRaises(manifestFile)
     THEN /\ Exit(p, "exception")
          /\ manifest' = manifest
     ELSE /\ manifest' = [manifest EXCEPT ![p] = _load(manifestFile)]
          /\ IF args[p].incremental
                /\ detect_spec_changes(_load(manifestFile),
                                       SpecTable[args[p].spec]).raised
             THEN Exit(p, "exception")
             ELSE /\ pc' = [pc EXCEPT ![p] = "generate"]
                  /\ run' = run
  /\ UNCHANGED <<fsVars, now, edits, args, idx, runs, apiVars, valVars>>

\* a variant of the loop that saves the manifest after each target
RunTarget_SavingEachTarget(p) ==
  /\ pc[p] = "generate"
  /\ idx[p] <= Len(args[p].targets)
  /\ LET t == args[p].targets[idx[p]] IN
       IF t \notin SUB_GENERATORS
       THEN /\ idx' = [idx EXCEPT ![p] = @ + 1]
            /\ UNCHANGED <<disk, pc, run, manifestFile>>
       ELSE LET g == Generate(t, SpecTable[args[p].spec], disk,
                              args[p].dry_run) IN
            /\ disk' = g.disk
            /\ IF g.raised
               THEN /\ pc' = [pc EXCEPT ![p] = "exited"]
                    /\ run' = [run EXCEPT ![p].invoked = @ + 1,
                                          ![p].exit = "exception"]
                    /\ idx' = idx
                    /\ manifestFile' = manifestFile
               ELSE /\ idx' = [idx EXCEPT ![p] = @ + 1]
                    /\ run' = [run EXCEPT ![p].invoked = @ + 1]
                    /\ pc' = pc
                    /\ manifestFile' =
                         IF SaveRaises(SpecTable[args[p].spec])
                         THEN manifestFile
                         ELSE json_dumps(SavedManifest(
                                SpecTable[args[p].spec], g.disk, manifestFile,
                                CollectGeneratedFiles(g.disk, manifestFile),
                                now))
  /\ UNCHANGED <<dirExists, now, edits, args, manifest, runs, apiVars, valVars>>

\* main, lines 144-152: one pass of the loop over the targets
RunTarget(p) ==
  /\ pc[p] = "generate"
  /\ idx[p] <= Len(args[p].targets)
  /\ LET t == args[p].targets[idx[p]] IN
       IF t \notin SUB_GENERATORS
       THEN /\ idx' = [idx EXCEPT ![p] = @ + 1]
            /\ UNCHANGED <<disk, pc, run>>
       ELSE LET g == Generate(t, SpecTable[args[p].spec], disk,
                              args[p].dry_run) IN
            /\ disk' = g.disk
            /\ IF g.raised
               THEN /\ pc' = [pc EXCEPT ![p] = "exited"]
                    /\ run' = [run EXCEPT ![p].invoked = @ + 1,
                                          ![p].exit = "exception"]
                    /\ idx' = idx
               ELSE /\ idx' = [idx EXCEPT ![p] = @ + 1]
                    /\ run' = [run EXCEPT ![p].invoked = @ + 1]
                    /\ pc' = pc
  /\ UNCHANGED <<manifestFile, dirExists, now, edits, args, manifest, runs,
                 apiVars, valVars>>

\* a variant of main that saves the manifest after a dry run as well
SaveCompute_AlsoOnDryRun(p) ==
  /\ pc[p] = "generate"
  /\ idx[p] > Len(args[p].targets)
  /\ IF SaveRaises(SpecTable[args[p].spec])
     THEN /\ Exit(p, "exception")
          /\ UNCHANGED <<manifest, now>>
     ELSE /\ now' = now + 1
          /\ manifest' = [manifest EXCEPT ![p] =
               SavedManifest(SpecTable[args[p].spec], disk, manifestFile,
                             CollectGeneratedFiles(disk, manifestFile),
                             now + 1)]
          /\ pc' = [pc EXCEPT ![p] = "write"]
          /\ run' = run
  /\ UNCHANGED <<fsVars, edits, args, idx, runs, apiVars, valVars>>

\* main, lines 154-163 with save() lines 55-75: after the loop, collect the
\* files and build the new manifest in memory
SaveCompute(p) ==
  /\ pc[p] = "generate"
  /\ idx[p] > Len(args[p].targets)
  /\ IF args[p].dry_run
     THEN /\ Exit(p, "ok")
          /\ UNCHANGED <<manifest, now>>
     ELSE IF SaveRaises(SpecTable[args[p].spec])
     THEN /\ Exit(p, "exception")
          /\ UNCHANGED <<manifest, now>>
     ELSE /\ now' = now + 1
          /\ manifest' = [manifest EXCEPT ![p] =
               SavedManifest(SpecTable[args[p].spec], disk, manifestFile,
                             CollectGeneratedFiles(disk, manifestFile),
                             now + 1)]
          /\ pc' = [pc EXCEPT ![p] = "write"]
          /\ run' = run
  /\ UNCHANGED <<fsVars, edits, args, idx, runs, apiVars, valVars>>

\* save() lines 77-79, main lines 164-166: write the manifest file
SaveWrite(p) ==
  /\ pc[p] = "write"
  /\ manifestFile' = json_dumps(manifest[p])
  /\ dirExists' = TRUE
  /\ pc' = [pc EXCEPT ![p] = "exited"]
  /\ run' = [run EXCEPT ![p].saved = TRUE, ![p].exit = "ok"]
  /\ UNCHANGED <<disk, now, edits, args, manifest, idx, runs, apiVars, valVars>>

\* the user interrupts a run; write_text() that was cut short leaves the
\* manifest file as it was or truncated
Interrupt(p) ==
  /\ Running(p)
  /\ Exit(p, "interrupt")
  /\ IF pc[p] = "write"
     THEN manifestFile' \in {manifestFile, UnparsableFile}
     ELSE manifestFile' = manifestFile
  /\ UNCHANGED <<disk, dirExists, now, edits, args, manifest, idx, runs,
                 apiVars, valVars>>

\* the user creates or overwrites a file of the output directory
UserWrite(path, content) ==
  /\ dirExists
  /\ edits < MaxEdits
  /\ disk[path] # content
  /\ disk' = [disk EXCEPT ![path] = content]
  /\ edits' = edits + 1
  /\ UNCHANGED <<manifestFile, dirExists, now, procVars, apiVars, valVars>>

\* the user deletes a file of the output directory
UserDelete(path) ==
  /\ edits < MaxEdits
  /\ disk[path] # 0
  /\ disk' = [disk EXCEPT ![path] = 0]
  /\ edits' = edits + 1
  /\ UNCHANGED <<manifestFile, dirExists, now, procVars, apiVars, valVars>>

\* the manifest file is deleted or damaged outside the generator
DamageManifest(mfile) ==
  /\ dirExists
  /\ edits < MaxEdits
  /\ manifestFile # mfile
  /\ manifestFile' = mfile
  /\ edits' = edits + 1
  /\ UNCHANGED <<disk, dirExists, now, procVars, apiVars, valVars>>


(***************************************************************************)
(* A GenerationManifest object used call by call, as a library: it is      *)
(* constructed over the output directory, then save, is_modified,          *)
(* detect_spec_changes and should_regenerate_file are called on it while   *)
(* the files change underneath.                                            *)
(***************************************************************************)
ApiPaths == {ReadmePath}
ApiSpecs == {"A", "B"}
\* the specs handed to detect_spec_changes: SpecR has the names and the
\* schema_version of SpecA under another fingerprint
DetectSpecs == ApiSpecs \cup {"R"}
\* the file lists handed to save()
FileLists == {{}, {ReadmePath}, {ReadmePath, ManifestPath}}
QueryPaths == ApiPaths \cup {ManifestPath, OutsidePath}

NoChanges == [added_agents |-> {}, removed_agents |-> {}, added_tools |-> {},
              removed_tools |-> {}, schema_version_changed |-> FALSE,
              is_first_generation |-> FALSE]
\* ret: the call (op and arguments), whether it raised, and what it returned;
\* for save, `before` is the set of paths tracked before the call and `bool`
\* tells whether the manifest file existed before the call
NoCall == [op |-> "none", path |-> OutsidePath, files |-> {}, spec |-> "A",
           incremental |-> FALSE, force |-> FALSE, raised |-> FALSE,
           bool |-> FALSE, reason |-> "", changes |-> NoChanges,
           before |-> {}]

\* GenerationManifest(out_dir); "save_load" marks a construction that comes
\* right after a save()
ApiConstruct ==
  /\ IF LoadRaises(manifestFile)
     THEN /\ m' = m
          /\ ret' = [NoCall EXCEPT !.op = "construct", !.raised = TRUE]
     ELSE /\ m' = _load(manifestFile)
          /\ ret' = IF ret.op = "save" /\ ~ret.raised
                    THEN [ret EXCEPT !.op = "save_load"]
                    ELSE [NoCall EXCEPT !.op = "construct"]
  /\ UNCHANGED <<fsVars, now, edits, procVars, valVars>>

\* manifest.save(spec, generated_files)
ApiSave(spec, files) ==
  /\ now < MaxRuns
  /\ IF SaveRaises(SpecTable[spec])
     THEN /\ ret' = [NoCall EXCEPT !.op = "save", !.spec = spec,
                                   !.files = files, !.raised = TRUE]
          /\ UNCHANGED <<m, manifestFile, now, dirExists>>
     ELSE /\ now' = now + 1
          /\ m' = SavedManifest(SpecTable[spec], disk, manifestFile, files,
                                now + 1)
          /\ manifestFile' = json_dumps(m')
          /\ dirExists' = TRUE
          /\ ret' = [NoCall EXCEPT !.op = "save", !.spec = spec,
                                   !.files = files,
                                   !.bool = (manifestFile.k # "absent"),
                                   !.before = IF m.k = "dict"
                                              THEN DOMAIN m.files ELSE {}]
  /\ UNCHANGED <<disk, edits, procVars, valVars>>

\* manifest.save(spec, generated_files) when an operation on the file system
\* fails: reading a listed file for its hash (the files before it are already
\* recorded), or creating the directory and writing the manifest file (a
\* write that was cut short leaves the file as it was or truncated); the
\* failure counts as a change of the file system
ApiSaveFails(spec, files, fault) ==
  /\ now < MaxRuns
  /\ edits < MaxFileChanges
  /\ ~SaveRaises(SpecTable[spec])
  /\ now' = now + 1
  /\ edits' = edits + 1
  /\ LET listed == {f \in files : Exists(disk, manifestFile, f)}
         saved == SavedManifest(SpecTable[spec], disk, manifestFile, files,
                                now + 1)
     IN IF fault = "hash"
        THEN /\ \E f \in listed : \E done \in SUBSET (listed \ {f}) :
                  m' = [saved EXCEPT !.files =
                          FileEntries(disk, manifestFile, done, now + 1)]
             /\ manifestFile' = manifestFile
        ELSE /\ m' = saved
             /\ manifestFile' \in {manifestFile, UnparsableFile}
  /\ ret' = [NoCall EXCEPT !.op = "save", !.spec = spec, !.files = files,
                           !.raised = TRUE, !.reason = fault]
  /\ UNCHANGED <<disk, dirExists, procVars, valVars>>

\* manifest.is_modified(file_path)
ApiIsModified(path) ==
  /\ LET out == is_modified(m, disk, manifestFile, path) IN
       ret' = [NoCall EXCEPT !.op = "is_modified", !.path = path,
                             !.raised = out.raised, !.bool = out.value]
  /\ UNCHANGED <<fsVars, now, edits, procVars, valVars, m>>

\* manifest.detect_spec_changes(new_spec)
ApiDetect(spec) ==
  /\ LET out == detect_spec_changes(m, SpecTable[spec]) IN
       ret' = [NoCall EXCEPT !.op = "detect", !.spec = spec,
                             !.raised = out.raised,
                             !.changes = IF out.raised THEN NoChanges
                                         ELSE out.value]
  /\ UNCHANGED <<fsVars, now, edits, procVars, valVars, m>>

\* should_regenerate_file(file_path, manifest, incremental, force)
ApiShouldRegenerate(path, incremental, force) ==
  /\ LET out == should_regenerate_file(path, m, disk, manifestFile,
                                       incremental, force) IN
       ret' = [NoCall EXCEPT !.op = "should_regenerate", !.path = path,
                             !.incremental = incremental, !.force = force,
                             !.raised = out.raised, !.bool = out.value[1],
                             !.reason = out.value[2]]
  /\ UNCHANGED <<fsVars, now, edits, procVars, valVars, m>>

\* a change of the files between two calls
ApiFileChange ==
  /\ edits < MaxFileChanges
  /\ edits' = edits + 1
  /\ \/ \E path \in ApiPaths, content \in Contents \cup {0} :
          /\ disk[path] # content
          /\ disk' = [disk EXCEPT ![path] = content]
          /\ manifestFile' = manifestFile
     \/ \E mfile \in {NoFile} \cup ForeignFiles :
          /\ manifestFile # mfile
          /\ manifestFile' = mfile
          /\ disk' = disk
  /\ ret' = [NoCall EXCEPT !.op = "file_change"]
  /\ UNCHANGED <<dirExists, now, procVars, valVars, m>>

(***************************************************************************)
(* SpecValidator used as a library: a goal spec document is edited field   *)
(* by field, as a user edits the JSON file, and handed to validate().      *)
(***************************************************************************)
MaxMutations == 2

MaxSteps == 3

\* no call made: `list` is the identity of the returned list (0: none),
\* `issues` what it held when it was returned, `spec` the argument
NoResult == [op |-> "none", raised |-> FALSE, is_valid |-> FALSE,
             issues |-> <<>>, list |-> 0, spec |-> EmptyDict]

\* SpecValidator.__init__: self.issues = [], self.spec = {}
NewValidator == [spec |-> EmptyDict, issues |-> 1]

\* a validate that keeps appending to the list of the earlier passes
validate_on_KeepingIssues(self, ls, spec) ==
  LET all == ls[self.issues] \o RunChecks(spec).issues
      r == validate(spec)
  IN [self |-> [spec |-> spec, issues |-> self.issues],
      lists |-> Append([ls EXCEPT ![self.issues] = all], <<>>),
      ret |-> [op |-> "validate", raised |-> r.raised,
               is_valid |-> ~r.raised /\ ~HasErrors(all),
               issues |-> IF r.raised THEN <<>> ELSE all,
               list |-> IF r.raised THEN 0 ELSE self.issues,
               spec |-> spec]]

\* validate() on a validator object: self.spec and self.issues are rebound
\* (to a new list), the checks append to self.issues, and that list is
\* returned; when a check raises the list keeps what was appended before
validate_on(self, ls, spec) ==
  LET id == Len(ls) + 1
      r == validate(spec)
  IN [self |-> [spec |-> spec, issues |-> id],
      lists |-> Append(ls, RunChecks(spec).issues),
      ret |-> [op |-> "validate", raised |-> r.raised,
               is_valid |-> r.is_valid, issues |-> r.issues,
               list |-> IF r.raised THEN 0 ELSE id, spec |-> spec]]

\* d[k] = v and del d[k] on a mapping
DictSet(d, k, v) ==
  JD(IF k \in SeqRange(d.keys) THEN d.keys ELSE Append(d.keys, k),
     [x \in SeqRange(d.keys) \cup {k} |-> IF x = k THEN v ELSE d.val[x]])
DictDel(d, k) ==
  JD(SelectSeq(d.keys, LAMBDA x : x # k),
     [x \in SeqRange(d.keys) \ {k} |-> d.val[x]])

\* the document with the entry at a path of keys set or deleted; a path
\* that does not lead through mappings leaves the document as it is
RECURSIVE EditAt(_, _, _, _)
EditAt(d, path, delete, v) ==
  IF ~IsDict(d) THEN d
  ELSE IF Len(path) = 1
  THEN IF delete
       THEN (IF path[1] \in SeqRange(d.keys) THEN DictDel(d, path[1]) ELSE d)
       ELSE DictSet(d, path[1], v)
  ELSE IF path[1] \in SeqRange(d.keys)
  THEN DictSet(d, path[1], EditAt(d.val[path[1]], Tail(path), delete, v))
  ELSE d

Del(path) == [path |-> path, delete |-> TRUE, value |-> JNull]
Put(path, v) == [path |-> path, delete |-> FALSE, value |-> v]

\* an agent that names a tool no tools section defines
GhostAgent ==
  JD(<<"kind", "tools">>,
     [kind |-> JS("llm_agent"), tools |-> JL(<<JS("ghost")>>)])
\* a task of the supervisor, and a task that names an agent no agents section
\* defines
SupTask ==
  JD(<<"id", "type", "agent">>,
     [id |-> JS("plan"), type |-> JS("task"), agent |-> JS("sup")])
GhostTask ==
  JD(<<"id", "type", "agent">>,
     [id |-> JS("book"), type |-> JS("task"), agent |-> JS("ghost")])

\* the edits made to the JSON file of a goal spec
DocEdits ==
  {Del(<<f>>) : f \in {"id", "title", "version", "agents", "tools"}}
  \cup {Del(<<"agents", "sup">>),
        Put(<<"agents", "worker">>, GhostAgent),
        Put(<<"agents", "worker">>, WorkerAgent),
        Put(<<"agents", "worker">>, JS("ghost")),
        Put(<<"agents">>, JL(<<>>)),
        Put(<<"tools">>, JL(<<>>)),
        Put(<<"tools", "t1">>, HttpTool),
        \* a section or an entry that was taken out is put back, at the end
        Put(<<"tools">>, JD(<<"t1">>, [t1 |-> FunctionTool])),
        Put(<<"agents", "sup">>, SupervisorAgent),
        Put(<<"tools", "t1", "spec">>, JS("ghost")),
        Put(<<"tasks">>, JL(<<SupTask, GhostTask>>)),
        Put(<<"tasks">>, JI(5)),
        Put(<<"state_management">>, JB(TRUE)),
        Put(<<"state_management">>, EmptyDict),
        Put(<<"deployment">>, EmptyDict),
        Put(<<"deployment", "environments">>, EmptyDict),
        Put(<<"id">>, JI(5)),
        Put(<<"version">>, JS("ghost"))}

\* the edits and the list allocations made so far
Steps == edits + Len(lists) - 1

\* the user edits the goal spec
MutateDoc(e) ==
  /\ edits < MaxMutations
  /\ Steps < MaxSteps
  /\ EditAt(doc, e.path, e.delete, e.value) # doc
  /\ doc' = EditAt(doc, e.path, e.delete, e.value)
  /\ edits' = edits + 1
  /\ validation' = NoResult
  /\ earlier' = IF validation.op = "validate" THEN validation ELSE earlier
  /\ UNCHANGED <<fsVars, now, procVars, apiVars, validator, lists>>

\* validator.validate(doc), on the validator used before
CallValidate ==
  /\ Steps < MaxSteps
  /\ \E call \in {validate_on(validator, lists, doc)} :
       /\ validator' = call.self
       /\ lists' = call.lists
       /\ validation' = call.ret
  /\ earlier' = IF validation.op = "validate" THEN validation ELSE earlier
  /\ UNCHANGED <<fsVars, now, edits, procVars, apiVars, doc>>

\* validator = SpecValidator(): the next call is made on a fresh object
Construct ==
  /\ Steps < MaxSteps
  /\ validator.spec # EmptyDict
  /\ validator' = [spec |-> EmptyDict, issues |-> Len(lists) + 1]
  /\ lists' = Append(lists, <<>>)
  /\ UNCHANGED <<fsVars, now, edits, procVars, apiVars, doc, validation,
                 earlier>>


(***************************************************************************)
(* Part 5: specifications.                                                 *)
(***************************************************************************)
InitProcs ==
  /\ runs = 0
  /\ pc = [p \in Procs |-> "idle"]
  /\ args = [p \in Procs |-> NoArgs]
  /\ manifest = [p \in Procs |-> _empty_manifest]
  /\ idx = [p \in Procs |-> 1]
  /\ run = [p \in Procs |-> FreshRun]

\* a fresh output directory, no generator running
Init ==
  /\ disk = [path \in Paths |-> 0]
  /\ manifestFile = NoFile
  /\ dirExists = FALSE
  /\ now = 0
  /\ edits = 0
  /\ InitProcs
  /\ m = _empty_manifest
  /\ ret = NoCall
  /\ doc = SpecA
  /\ validation = NoResult
  /\ validator = NewValidator
  /\ lists = <<<<>>>>
  /\ earlier = NoResult

Step(p) ==
  \/ Validate(p)
  \/ MakeDirs(p)
  \/ LoadManifest(p)
  \/ RunTarget(p)
  \/ SaveCompute(p)
  \/ SaveWrite(p)
  \/ Interrupt(p)

\* the files the user touches
EditPaths == {ReadmePath, NotesPath, ToolPath("t1")}
Quiet == \A p \in Procs : pc[p] = "idle"

\* the user changes files between two runs
UserChange ==
  /\ Quiet
  /\ \/ \E path \in EditPaths, content \in Contents :
          UserWrite(path, content)
     \/ \E path \in EditPaths : UserDelete(path)
     \/ \E mfile \in {NoFile} \cup ForeignFiles :
          DamageManifest(mfile)

\* one invocation of the generator after the other, on one output directory
Next ==
  \/ \E a \in Args : StartRun("p1", a)
  \/ Step("p1")
  \/ Reap("p1")
  \/ UserChange

Spec == Init /\ [][Next]_vars

\* two invocations of the generator on the same output directory at once
ConcArgs == {a \in Args : /\ a.spec \in {"A", "B"}
                          /\ a.targets = <<"scaffold", "tools">>
                          /\ ~a.dry_run /\ ~a.force /\ ~a.skip_validation}
ConcStep(p) ==
  \/ Validate(p)
  \/ MakeDirs(p)
  \/ LoadManifest(p)
  \/ RunTarget(p)
  \/ SaveCompute(p)
  \/ SaveWrite(p)

NextConc ==
  \/ \E p \in Procs, a \in ConcArgs : StartRun(p, a)
  \/ \E p \in Procs : ConcStep(p)
  \/ \E p \in Procs : Reap(p)

SpecConc == Init /\ [][NextConc]_vars

\* the manifest object as a library
InitApi ==
  /\ disk \in {d \in [Paths -> 0..1] : \A path \in Paths \ ApiPaths : d[path] = 0}
  /\ manifestFile \in {NoFile, UnparsableFile, NonMappingFile}
  /\ dirExists = TRUE
  /\ now = 0
  /\ edits = 0
  /\ InitProcs
  /\ m = _load(manifestFile)
  /\ ret = [NoCall EXCEPT !.op = "construct"]
  /\ doc = SpecA
  /\ validation = NoResult
  /\ validator = NewValidator
  /\ lists = <<<<>>>>
  /\ earlier = NoResult

NextApi ==
  \/ ApiConstruct
  \/ \E spec \in ApiSpecs, files \in FileLists : ApiSave(spec, files)
  \/ \E spec \in ApiSpecs, files \in FileLists, fault \in {"hash", "write"} :
        ApiSaveFails(spec, files, fault)
  \/ \E path \in QueryPaths : ApiIsModified(path)
  \/ \E spec \in DetectSpecs : ApiDetect(spec)
  \/ \E path \in QueryPaths, incremental \in BOOLEAN, force \in BOOLEAN :
        ApiShouldRegenerate(path, incremental, force)
  \/ ApiFileChange

SpecApi == InitApi /\ [][NextApi]_vars

\* the validator as a library, over the documents a few edits away from the
\* shell's goal specs
InitVal ==
  /\ disk = [path \in Paths |-> 0]
  /\ manifestFile = NoFile
  /\ dirExists = FALSE
  /\ now = 0
  /\ edits = 0
  /\ InitProcs
  /\ m = _empty_manifest
  /\ ret = NoCall
  /\ doc \in {SpecA, SpecB, SpecR}
  /\ validation = NoResult
  /\ validator = NewValidator
  /\ lists = <<<<>>>>
  /\ earlier = NoResult

NextVal ==
  \/ \E e \in DocEdits : MutateDoc(e)
  \/ CallValidate
  \/ Construct

SpecVal == InitVal /\ [][NextVal]_vars


(***************************************************************************)
(* Part 6: properties.                                                     *)
(***************************************************************************)

\* C1: in a run with --incremental and without --force, a file that an
\* earlier run wrote and recorded and whose content has been changed since is
\* left as it is by every generator.
IncrementalPreservesModifiedFiles ==
  [][\A p \in Procs :
       (pc[p] = "generate" /\ args[p].incremental /\ ~args[p].force) =>
         \A path \in Paths :
           (/\ manifest[p].k = "dict"
            /\ path \in DOMAIN manifest[p].files
            /\ disk[path] # 0
            /\ is_modified(manifest[p], disk, manifestFile, path).value)
           => disk'[path] = disk[path]]_vars

\* C2: when the validator reports an error the run ends there with a
\* non-zero status, no generator invoked, the output directory and the
\* manifest untouched; when it reports no error the run goes on to the
\* generation.
ValidationGateState ==
  \A p \in Procs :
    /\ run[p].validation = "errors" =>
         /\ pc[p] = "exited"
         /\ ExitStatus(run[p].exit) # 0
         /\ run[p].invoked = 0
         /\ ~run[p].made_dir
         /\ ~run[p].saved
    /\ run[p].validation = "clean" => run[p].exit # "validation"
ValidationGateStep(p) ==
  (/\ pc[p] = "validate"
   /\ pc'[p] # "validate"
   /\ run'[p].exit # "interrupt"
   /\ ~args[p].skip_validation)
  => LET result == validate(SpecTable[args[p].spec]) IN
       ~result.raised =>
         IF HasErrors(result.issues)
         THEN /\ pc'[p] = "exited"
              /\ ExitStatus(run'[p].exit) # 0
              /\ run'[p].validation = "errors"
              /\ UNCHANGED fsVars
         ELSE /\ pc'[p] = "makedirs"
              /\ run'[p].validation = "clean"
ValidationErrorsAbortRun ==
  []ValidationGateState /\ [][\A p \in Procs : ValidationGateStep(p)]_vars
\* a run that stopped on validation errors, next to files of an earlier run
ValidationErrorsAbortRun_Witness ==
  \E p \in Procs :
    /\ run[p].validation = "errors"
    /\ run[p].exit = "validation"
    /\ manifestFile.k = "doc"

\* C3 (as stated): no generator is invoked and no manifest is saved in a run
\* that has not validated the spec first.
ValidationPrecedesGeneration ==
  \A p \in Procs :
    (run[p].invoked > 0 \/ pc[p] = "write" \/ run[p].saved)
    => run[p].validation \in {"clean", "errors"}
\* C3 (amended): in a run without --skip-validation, no generator is invoked
\* and no manifest is saved before the validator has returned without an
\* error.
ValidationPrecedesGenerationUnlessSkipped ==
  \A p \in Procs :
    (/\ ~args[p].skip_validation
     /\ (run[p].invoked > 0 \/ pc[p] = "write" \/ run[p].saved))
    => run[p].validation = "clean"
\* a validated run that has invoked a generator
ValidationPrecedesGenerationUnlessSkipped_Witness ==
  \E p \in Procs :
    /\ ~args[p].skip_validation
    /\ run[p].invoked > 0
    /\ run[p].validation = "clean"

\* C4: should_regenerate_file returns for every combination of its inputs,
\* and its decision is: regenerate exactly when force is set, or the file
\* does not exist, or incremental is not set.
ShouldRegenerateDecides ==
  ret.op = "should_regenerate" =>
    /\ ~ret.raised
    /\ ret.bool = (\/ ret.force
                   \/ ~Exists(disk, manifestFile, ret.path)
                   \/ ~ret.incremental)

SaveThenLoadReportsNoChange ==
  ret.op = "save_load" =>
    /\ \A f \in ret.files :
         LET modified == is_modified(m, disk, manifestFile, f) IN
           ~modified.raised /\ ~modified.value
    /\ LET changes == detect_spec_changes(m, SpecTable[ret.spec]) IN
         ~changes.raised /\ changes.value = NoChanges

\* C8: while a run has not gone through all its targets, no step changes the
\* manifest file: a run that ends early leaves the manifest of the previous
\* completed run, or none.
ManifestWrittenAfterAllTargets ==
  [][\A p \in Procs :
       (Running(p) /\ (pc[p] # "write" \/ idx[p] <= Len(args[p].targets)))
       => manifestFile' = manifestFile]_vars
\* a run that failed or was interrupted after a generator ran, over the
\* manifest of an earlier run
ManifestWrittenAfterAllTargets_Witness ==
  \E p \in Procs :
    /\ pc[p] = "exited"
    /\ run[p].exit \in {"exception", "interrupt"}
    /\ run[p].invoked > 0
    /\ idx[p] <= Len(args[p].targets)
    /\ manifestFile.k = "doc"

\* C9: two invocations on one output directory are never both between
\* loading and saving the manifest, and when both are over every fingerprint
\* in the manifest file is the one of the file on disk.
InUpdate(p) == pc[p] \in {"generate", "write"}
ConcurrentRunsSerialized ==
  /\ \A p, q \in Procs : p # q => ~(InUpdate(p) /\ InUpdate(q))
  /\ ((\A p \in Procs : ~Running(p)) /\ manifestFile.k = "doc") =>
       \A f \in Paths \cap DOMAIN manifestFile.files :
         /\ disk[f] # 0
         /\ manifestFile.files[f].hash = Sha256Hex16(disk[f])

\* C10: after save(spec, files) the manifest, in memory and on disk, tracks
\* exactly the listed files that exist and carries the summary of spec;
\* nothing recorded by an earlier save survives unless recorded again.
SaveReplacesManifest ==
  (ret.op = "save" /\ ~ret.raised) =>
    LET existing == {f \in ret.files :
                       IF f = ManifestPath THEN ret.bool ELSE disk[f] # 0}
    IN /\ m.k = "dict"
       /\ DOMAIN m.files = existing
       /\ m.spec = <<SpecSummary(SpecTable[ret.spec])>>
       /\ manifestFile = json_dumps(m)
       /\ DOMAIN _load(manifestFile).files = existing
       /\ _load(manifestFile).spec = <<SpecSummary(SpecTable[ret.spec])>>
\* a save that drops a path the previous save had recorded
SaveReplacesManifest_Witness ==
  /\ ret.op = "save" /\ ~ret.raised
  /\ ret.before \ DOMAIN m.files # {}
  /\ ret.files \ DOMAIN m.files # {}

\* the files the generator targets of a run write: what the generators render
\* into an empty directory
WrittenByRun(a) ==
  {path \in Paths :
     \E i \in 1..Len(a.targets) :
       /\ a.targets[i] \in SUB_GENERATORS
       /\ Generate(a.targets[i], SpecTable[a.spec],
                   [q \in Paths |-> 0], FALSE).disk[path] # 0}

\* C11: after a successful run that is not a dry run, the manifest file
\* tracks exactly the files the generator targets of that run wrote.
ManifestTracksFilesOfRun ==
  \A p \in Procs :
    (run[p].saved /\ manifestFile.k = "doc")
    => DOMAIN manifestFile.files = WrittenByRun(args[p])

\* C12: when a successful run replaces the manifest of a run whose spec had
\* a tool the new spec has not, the file generated for that tool is neither
\* in the project tree nor tracked afterwards.
NoArtifactOfRemovedTool ==
  [][\A p \in Procs :
       (/\ pc[p] = "write" /\ run'[p].saved
        /\ manifestFile.k = "doc" /\ manifestFile.spec # <<>>)
       => \A t \in SeqRange(manifestFile.spec[1].tools)
                     \ SeqRange(KeysOf(SpecTable[args[p].spec], "tools")) :
            t \in ToolNames =>
              /\ disk'[ToolPath(t)] = 0
              /\ ToolPath(t) \notin DOMAIN manifestFile'.files]_vars

\* C13: a save() that raises leaves the manifest in memory and the manifest
\* file as they were before the call.
FailedSaveChangesNothing ==
  [][(ret'.op = "save" /\ ret'.raised)
     => (m' = m /\ manifestFile' = manifestFile)]_vars

\* C14: constructing a manifest over a directory whose manifest file is
\* absent or is not a manifest document never raises and yields the empty
\* manifest: detect_spec_changes reports a first generation and is_modified
\* is false for every path.
LoadOfForeignFileIsEmpty ==
  (ret.op = "construct"
   /\ (manifestFile.k = "absent" \/ manifestFile \in ForeignFiles))
  => /\ ~ret.raised
     /\ m = _empty_manifest
     /\ \A spec \in ApiSpecs :
          LET changes == detect_spec_changes(m, SpecTable[spec]) IN
            ~changes.raised /\ changes.value.is_first_generation
     /\ \A path \in QueryPaths :
          LET modified == is_modified(m, disk, manifestFile, path) IN
            ~modified.raised /\ ~modified.value

\* C15: no step of a run with --dry-run changes the manifest file.
DryRunLeavesManifest ==
  [][\A p \in Procs :
       (Running(p) /\ args[p].dry_run) => manifestFile' = manifestFile]_vars
\* a dry run that went through its targets, over the manifest of an earlier
\* run
DryRunLeavesManifest_Witness ==
  \E p \in Procs :
    /\ args[p].dry_run
    /\ pc[p] = "exited" /\ run[p].exit = "ok"
    /\ run[p].invoked > 0
    /\ manifestFile.k = "doc"

\* the names of the agents or tools of a spec, and its schema_version
NamesIn(spec, key) == SeqRange(KeysOf(spec, key))
SchemaVersionOf(spec) == NumValue(SpecGet(spec, "schema_version", JI(1)))

\* C16: detect_spec_changes(new_spec) on a manifest without a spec summary
\* reports a first generation with every name of new_spec added, nothing
\* removed and no schema change; on a manifest with a summary it reports
\* added = new minus recorded, removed = recorded minus new, and a schema
\* change exactly when the two schema versions differ.
DetectReportsSetDifferences ==
  (ret.op = "detect" /\ m.k = "dict") =>
    LET new_spec == SpecTable[ret.spec]
        c == ret.changes
    IN /\ ~ret.raised
       /\ IF m.spec = <<>>
          THEN /\ c.is_first_generation
               /\ c.added_agents = NamesIn(new_spec, "agents")
               /\ c.added_tools = NamesIn(new_spec, "tools")
               /\ c.removed_agents = {} /\ c.removed_tools = {}
               /\ ~c.schema_version_changed
          ELSE LET old_agents == SeqRange(m.spec[1].agents)
                   old_tools == SeqRange(m.spec[1].tools)
               IN /\ ~c.is_first_generation
                  /\ c.added_agents = NamesIn(new_spec, "agents") \ old_agents
                  /\ c.removed_agents = old_agents \ NamesIn(new_spec, "agents")
                  /\ c.added_tools = NamesIn(new_spec, "tools") \ old_tools
                  /\ c.removed_tools = old_tools \ NamesIn(new_spec, "tools")
                  /\ c.added_agents \cap c.removed_agents = {}
                  /\ c.added_tools \cap c.removed_tools = {}
                  /\ (old_agents \ c.removed_agents) \cup c.added_agents
                       = NamesIn(new_spec, "agents")
                  /\ (old_tools \ c.removed_tools) \cup c.added_tools
                       = NamesIn(new_spec, "tools")
                  /\ c.schema_version_changed
                       = (NumValue(m.spec[1].schema_version)
                            # SchemaVersionOf(new_spec))
\* the changes from the spec with two tools and schema version 2 to the spec
\* with one tool and no schema version
DetectReportsSetDifferences_Witness ==
  /\ ret.op = "detect" /\ ~ret.raised
  /\ ~ret.changes.is_first_generation
  /\ ret.changes.removed_tools # {}
  /\ ret.changes.removed_agents # {}
  /\ ret.changes.schema_version_changed

\* C17: whenever validate() returns, is_valid is true exactly when the
\* returned diagnostics contain no ERROR; warnings and infos never make a
\* spec invalid.
IsValidIffNoError ==
  (validation.op = "validate" /\ ~validation.raised)
  => (validation.is_valid <=>
        ~\E i \in 1..Len(validation.issues) :
            validation.issues[i].severity = ERROR)
\* a spec with a warning and no error was validated and found valid
IsValidIffNoError_Witness ==
  /\ validation.op = "validate"
  /\ ~validation.raised
  /\ validation.is_valid
  /\ \E i \in 1..Len(validation.issues) :
        validation.issues[i].severity = WARNING

\* C18: validate never raises: for every spec, also one in which some key
\* holds a value of the wrong type, a call of validate returns (is_valid,
\* diagnostics).
ValidateNeverRaises == validation.op = "validate" => ~validation.raised

\* the (agent, tool) pairs of a spec in which the agent's tools list names a
\* tool that is not a key of the top-level tools mapping
UndefinedToolRefs(spec) ==
  LET agents == SpecGet(spec, "agents", EmptyDict)
      tools == SpecGet(spec, "tools", EmptyDict)
      defined == IF IsDict(tools) THEN SeqRange(tools.keys) ELSE {}
  IN IF ~IsDict(agents) THEN {}
     ELSE {ref \in SeqRange(agents.keys) \X {"ghost", "t1", "t2"} :
             LET agent == agents.val[ref[1]] IN
               /\ IsDict(agent)
               /\ In("tools", agent)
               /\ IsList(Get(agent, "tools"))
               /\ JS(ref[2]) \in SeqRange(Get(agent, "tools").items)
               /\ ref[2] \notin defined}

\* C19: a spec in which an agent's tools list names a tool that the top-level
\* tools mapping does not define (also when there is no tools section) is
\* found invalid whenever validate returns, with an ERROR for each such
\* reference that names the agent and the tool.
UndefinedToolIsError ==
  (validation.op = "validate" /\ ~validation.raised
                              /\ UndefinedToolRefs(doc) # {})
  => /\ ~validation.is_valid
     /\ \A ref \in UndefinedToolRefs(doc) :
          \E i \in 1..Len(validation.issues) :
            /\ validation.issues[i].severity = ERROR
            /\ validation.issues[i].path = <<"agents", ref[1], "tools">>
            /\ validation.issues[i].subject = <<ref[2]>>

\* the required top-level fields a spec lacks
MissingFields(spec) == {f \in SeqRange(required_fields) : ~In(f, spec)}
\* the positions of the diagnostics about a top-level field
IssuesOn(issues, f) ==
  {i \in 1..Len(issues) : issues[i].path = <<"root", f>> \/ issues[i].path[1] = f}

\* C20: a spec that lacks some of the required top-level fields id, title,
\* version and agents is found invalid, and for each missing field the
\* diagnostics hold exactly one entry about it: an ERROR at root.<field>.
MissingFieldIsOneError ==
  (validation.op = "validate" /\ MissingFields(doc) # {})
  => /\ ~validation.raised
     /\ ~validation.is_valid
     /\ \A f \in MissingFields(doc) :
          /\ Cardinality(IssuesOn(validation.issues, f)) = 1
          /\ \A i \in IssuesOn(validation.issues, f) :
               /\ validation.issues[i].severity = ERROR
               /\ validation.issues[i].path = <<"root", f>>

\* the agents of a spec form a non-empty mapping without a supervisor entry
LacksSupervisor(spec) ==
  /\ In("agents", spec)
  /\ IsDict(Get(spec, "agents"))
  /\ Get(spec, "agents").keys # <<>>
  /\ \A a \in SeqRange(Get(spec, "agents").keys) :
       LET agent == Get(spec, "agents").val[a] IN
         ~(IsDict(agent) /\ In("kind", agent)
                         /\ IsStrEq(Get(agent, "kind"), "supervisor"))
\* the positions of the missing-supervisor ERROR
SupervisorErrors(issues) ==
  {i \in 1..Len(issues) :
     /\ issues[i].severity = ERROR
     /\ issues[i].message = "At least one supervisor agent is required"}

\* C21: a spec whose agents mapping is non-empty and holds no supervisor is
\* found invalid, with an ERROR that mentions the supervisor; a spec with a
\* supervisor entry gets no such ERROR.
MissingSupervisorIsError ==
  validation.op = "validate"
  => IF LacksSupervisor(doc)
     THEN /\ ~validation.raised
          /\ ~validation.is_valid
          /\ SupervisorErrors(validation.issues) # {}
     ELSE SupervisorErrors(validation.issues) = {}

\* the 1-based positions of the tasks whose agent is not a key of the agents
\* mapping
UndefinedTaskAgents(spec) ==
  LET tasks == Get(spec, "tasks").items
      defined == SeqRange(Get(spec, "agents").keys)
  IN {i \in 1..Len(tasks) :
        /\ IsDict(tasks[i])
        /\ In("agent", tasks[i])
        /\ ~(IsStr(Get(tasks[i], "agent"))
             /\ Get(tasks[i], "agent").s \in defined)}
\* the positions of the undefined-agent ERRORs about the task at position i
TaskAgentErrors(issues, i) ==
  {k \in 1..Len(issues) :
     /\ issues[k].severity = ERROR
     /\ issues[k].path = <<TaskSegment(i - 1), "agent">>
     /\ issues[k].message = "Task references undefined agent"}

\* C22: in a spec with an agents mapping and a tasks sequence, each task whose
\* agent is not a key of agents makes the spec invalid and gets one ERROR at
\* tasks[i].agent that names the agent; a task whose agent is defined gets no
\* such ERROR.
UndefinedTaskAgentIsError ==
  (/\ validation.op = "validate"
   /\ In("agents", doc) /\ IsDict(Get(doc, "agents"))
   /\ In("tasks", doc) /\ IsList(Get(doc, "tasks")))
  => \A i \in 1..Len(Get(doc, "tasks").items) :
       IF i \in UndefinedTaskAgents(doc)
       THEN /\ ~validation.raised
            /\ ~validation.is_valid
            /\ Cardinality(TaskAgentErrors(validation.issues, i)) = 1
            /\ \A k \in TaskAgentErrors(validation.issues, i) :
                 validation.issues[k].subject =
                   <<Shown(Get(Get(doc, "tasks").items[i], "agent"))>>
       ELSE TaskAgentErrors(validation.issues, i) = {}

\* C23: the validator keeps no diagnostics between calls.  A returned
\* diagnostic sequence is the one a fresh validator returns for the same
\* spec, so no diagnostic of an earlier pass appears in it; a sequence
\* returned earlier still reads as it did when it was returned; and two
\* calls on the same spec return identical sequences.
ValidateIsStateless ==
  /\ (validation.op = "validate" /\ ~validation.raised)
     => /\ lists[validation.list] = validate(validation.spec).issues
        /\ lists[validation.list] = validation.issues
  /\ (earlier.op = "validate" /\ ~earlier.raised)
     => lists[earlier.list] = earlier.issues
  /\ (/\ validation.op = "validate" /\ ~validation.raised
      /\ earlier.op = "validate" /\ ~earlier.raised
      /\ earlier.spec = validation.spec)
     => lists[earlier.list] = lists[validation.list]
\* the same spec was validated twice on one validator, with diagnostics
ValidateIsStateless_Witness ==
  /\ validation.op = "validate" /\ ~validation.raised
  /\ earlier.op = "validate" /\ ~earlier.raised
  /\ earlier.spec = validation.spec
  /\ earlier.list # validation.list
  /\ validation.list = earlier.list + 1
  /\ earlier.issues # <<>>

\* what each of the twelve checks reports for a spec when run on its own, in
\* the order in which validate() lists them
ChecksInOrder(spec) ==
  <<_validate_required_fields(spec), _validate_id(spec),
    _validate_version(spec), _validate_agents(spec), _validate_tools(spec),
    _validate_tasks(spec), _validate_state_management(spec),
    _validate_ux(spec), _validate_deployment(spec),
    _validate_authentication(spec), _validate_cross_references(spec),
    _validate_best_practices(spec)>>
\* the checks that report a given diagnostic for a spec
ChecksReporting(issue, spec) ==
  {k \in 1..12 : issue \in SeqRange(ChecksInOrder(spec)[k].issues)}

\* C24: the returned diagnostics are in the order of the checks, not of the
\* severities: each diagnostic is reported by exactly one check, and a
\* diagnostic of an earlier check precedes every diagnostic of a later one.
DiagnosticsInCheckOrder ==
  (validation.op = "validate" /\ ~validation.raised)
  => /\ \A i \in 1..Len(validation.issues) :
          Cardinality(ChecksReporting(validation.issues[i], doc)) = 1
     /\ \A i, j \in 1..Len(validation.issues) :
          i < j => \A a \in ChecksReporting(validation.issues[i], doc),
                      b \in ChecksReporting(validation.issues[j], doc) : a <= b
\* a cross-reference ERROR was returned after the state_management INFO and
\* before the missing-description INFO
DiagnosticsInCheckOrder_Witness ==
  /\ validation.op = "validate" /\ ~validation.raised
  /\ \E i, j, k \in 1..Len(validation.issues) :
       /\ i < j /\ j < k
       /\ validation.issues[i].severity = INFO
       /\ ChecksReporting(validation.issues[i], doc) = {7}
       /\ validation.issues[j].severity = ERROR
       /\ ChecksReporting(validation.issues[j], doc) = {11}
       /\ validation.issues[k].severity = INFO
       /\ ChecksReporting(validation.issues[k], doc) = {12}

\* the diagnostics of a severity at a path
IssuesAt(issues, severity, path) ==
  {i \in 1..Len(issues) :
     issues[i].severity = severity /\ issues[i].path = path}

\* C25: for a spec whose deployment section is a mapping, a returning
\* validate reports a WARNING at deployment.environments when the
\* environments key is missing and when it is an empty mapping, and an INFO,
\* nothing stronger, at deployment.monitoring when the monitoring key is
\* missing; no ERROR is reported about the deployment section.
DeploymentHintsReported ==
  (/\ validation.op = "validate" /\ ~validation.raised
   /\ In("deployment", doc) /\ IsDict(Get(doc, "deployment")))
  => LET deployment == Get(doc, "deployment")
         issues == validation.issues
     IN /\ (~In("environments", deployment)
              \/ Get(deployment, "environments") = EmptyDict)
           => IssuesAt(issues, WARNING, <<"deployment", "environments">>) # {}
        /\ ~In("monitoring", deployment)
           => /\ IssuesAt(issues, INFO, <<"deployment", "monitoring">>) # {}
              /\ IssuesAt(issues, WARNING, <<"deployment", "monitoring">>) = {}
        /\ \A i \in 1..Len(issues) :
             issues[i].path[1] = "deployment" => issues[i].severity # ERROR

\* C26: when a full generation that is not a dry run has exited with success,
\* the manifest file exists and its top-level keys include spec,
\* generated_files and timestamp.
ManifestHasExpectedKeys ==
  \A p \in Procs :
    (/\ pc[p] = "exited" /\ run[p].exit = "ok"
     /\ ~args[p].dry_run
     /\ SeqRange(args[p].targets) = SUB_GENERATORS)
    => /\ manifestFile.k = "doc"
       /\ {"spec", "generated_files", "timestamp"}
            \subseteq TopLevelKeys(manifestFile)

\* two documents are equal as nested mappings: the same keys with equal
\* values at every level, in whatever order the keys are listed
RECURSIVE SameMapping(_, _)
SameMapping(a, b) ==
  IF a.t # b.t THEN FALSE
  ELSE CASE a.t = "dict" ->
              /\ SeqRange(a.keys) = SeqRange(b.keys)
              /\ \A key \in SeqRange(a.keys) : SameMapping(a.val[key], b.val[key])
         [] a.t = "list" ->
              /\ Len(a.items) = Len(b.items)
              /\ \A i \in 1..Len(a.items) : SameMapping(a.items[i], b.items[i])
         [] OTHER -> a = b

\* C27: the spec fingerprint does not depend on the order of the keys: a
\* document that equals one of the goal specs as a nested mapping, with its
\* keys listed in another order at any level, has that spec's fingerprint.
FingerprintIgnoresKeyOrder ==
  \A name \in SpecNames :
    SameMapping(doc, SpecTable[name])
    => _hash_dict(doc) = _hash_dict(SpecTable[name])
\* a goal spec with the keys of its agents mapping in another order
FingerprintIgnoresKeyOrder_Witness ==
  /\ SameMapping(doc, SpecB)
  /\ Get(doc, "agents").keys # Get(SpecB, "agents").keys

\* C28: right after a run of the shell that was not a dry run has exited with
\* success, be it the first run or a repeated one, a manifest freshly loaded
\* from the output directory reports is_modified(f) = false for every path f
\* it tracks.
FreshManifestReportsNoChange ==
  \A p \in Procs :
    (pc[p] = "exited" /\ run[p].exit = "ok" /\ run[p].saved)
    => LET fresh == _load(manifestFile) IN
         \A f \in DOMAIN fresh.files :
           LET modified == is_modified(fresh, disk, manifestFile, f) IN
             ~modified.raised /\ ~modified.value

\* C29: the regenerate/preserve decision of should_regenerate_file does not
\* depend on the manifest: for the same path, files and flags, any other
\* manifest (an empty one, one loaded from the manifest file, one loaded from
\* a file that holds no mapping) yields a returned boolean as well, and the
\* same one.
DecisionIgnoresManifest ==
  ret.op = "should_regenerate" =>
    \A other \in {_empty_manifest, _load(manifestFile), NonMappingManifest} :
      LET out == should_regenerate_file(ret.path, other, disk, manifestFile,
                                        ret.incremental, ret.force)
      IN /\ ~ret.raised
         /\ ~out.raised
         /\ out.value[1] = ret.bool

\* C30: detect_spec_changes looks at the names and the schema_version only:
\* when the new spec has the agent names, the tool names and the
\* schema_version of the recorded summary, it reports nothing added, nothing
\* removed and no schema change, whatever the fingerprint of the new spec.
DetectIgnoresFingerprint ==
  (/\ ret.op = "detect"
   /\ m.k = "dict" /\ m.spec # <<>>
   /\ NamesIn(SpecTable[ret.spec], "agents") = SeqRange(m.spec[1].agents)
   /\ NamesIn(SpecTable[ret.spec], "tools") = SeqRange(m.spec[1].tools)
   /\ SchemaVersionOf(SpecTable[ret.spec]) = NumValue(m.spec[1].schema_version))
  => (~ret.raised /\ ret.changes = NoChanges)
\* a spec with the recorded names and another fingerprint was compared
DetectIgnoresFingerprint_Witness ==
  /\ ret.op = "detect" /\ ~ret.raised
  /\ m.k = "dict" /\ m.spec # <<>>
  /\ NamesIn(SpecTable[ret.spec], "agents") = SeqRange(m.spec[1].agents)
  /\ NamesIn(SpecTable[ret.spec], "tools") = SeqRange(m.spec[1].tools)
  /\ SchemaVersionOf(SpecTable[ret.spec]) = NumValue(m.spec[1].schema_version)
  /\ m.spec[1].hash # _hash_dict(SpecTable[ret.spec])

====
